---- MODULE Spec2Model ----
(***************************************************************************)
(* Todo AI chatbot backend: the todo store and its eight tools             *)
(* (services/todo_tools.py), the tool executor and the agentic loop        *)
(* (services/ai_agent.py), and the REST / chat routers (routers/).         *)
(*                                                                         *)
(* Text is modelled as a sequence of one-character strings, so trimming,   *)
(* case folding, LIKE patterns and word splitting are computed, not        *)
(* assumed.  A UUID is a number; its text form is a one-digit string.      *)
(***************************************************************************)
EXTENDS Integers, Sequences, FiniteSets, TLC

VARIABLES todos, clock, nextTodoId, conversations, messages, nextConvId,
          nextMsgId, requests, lastOp, result

vars ==
    <<todos, clock, nextTodoId, conversations, messages, nextConvId,
      nextMsgId, requests, lastOp, result>>

----------------------------------------------------------------------------
(* Bounds of the model.                                                    *)

MaxTodos == 2

MaxUpdates == 1

MaxConvs == 1

MaxMsgs == 4

MaxRounds == 1

MaxHistory == 22

Users ==
    {"A", "B"}

----------------------------------------------------------------------------
(* Text.                                                                   *)

JNull ==
    <<"#null">>

JMissing ==
    <<"#missing">>

JTrue ==
    <<"#true">>

JFalse ==
    <<"#false">>

IsStr(v) ==
    v \notin {JNull, JMissing, JTrue, JFalse}

IsSpace(c) ==
    c = " "

Lower(c) ==
    CASE c = "A" -> "a"
      [] c = "B" -> "b"
      [] OTHER -> c

RECURSIVE LStrip(_)
LStrip(s) ==
    IF s # <<>> /\ IsSpace(Head(s)) THEN LStrip(Tail(s)) ELSE s

RECURSIVE RStrip(_)
RStrip(s) ==
    IF s # <<>> /\ IsSpace(s[Len(s)])
    THEN RStrip(SubSeq(s, 1, Len(s) - 1))
    ELSE s

Strip(s) ==
    RStrip(LStrip(s))

\* SQL LIKE: % matches any run of characters, _ matches one character;
\* ILIKE compares the remaining characters case-insensitively.
RECURSIVE LikeMatch(_, _)
LikeMatch(p, s) ==
    IF p = <<>> THEN s = <<>>
    ELSE IF Head(p) = "%"
         THEN LikeMatch(Tail(p), s) \/ (s # <<>> /\ LikeMatch(p, Tail(s)))
         ELSE /\ s # <<>>
              /\ (Head(p) = "_" \/ Lower(Head(p)) = Lower(Head(s)))
              /\ LikeMatch(Tail(p), Tail(s))

ilike(s, pattern) ==
    LikeMatch(pattern, s)

\* f"%{x}%": a str is interpolated as itself, None as the text None.
FormatStr(v) ==
    IF v = JNull THEN <<"N", "o", "n", "e">> ELSE v

ContainsPattern(v) ==
    <<"%">> \o FormatStr(v) \o <<"%">>

----------------------------------------------------------------------------
(* Identifiers.  uuid4() never repeats: the model hands out 1, 2, ...      *)

DigitOf ==
    <<"1", "2", "3", "4", "5", "6", "7", "8", "9">>

NoId == 0

\* str(todo.id)
IdStr(i) ==
    <<DigitOf[i]>>

IsUUIDText(s) ==
    Len(s) = 1 /\ \E i \in 1..Len(DigitOf) : DigitOf[i] = s[1]

\* UUID(text): the id, for a text UUID() accepts.
UUID(s) ==
    CHOOSE i \in 1..Len(DigitOf) : DigitOf[i] = s[1]

----------------------------------------------------------------------------
(* The todo table (models/todo.py).  A database is the record              *)
(* [todos, clock, nextTodoId]; every tool maps a database to a database    *)
(* and an outcome.                                                         *)

\* Todo(title=..., user_id=...): uuid4 id, completed False, both stamps now.
Todo(id, title, user_id, now) ==
    [id |-> id, title |-> title, completed |-> FALSE, user_id |-> user_id,
     created_at |-> now, updated_at |-> now]

\* select(Todo).where(Todo.user_id == user_id)
OwnedBy(rows, user_id) ==
    {i \in DOMAIN rows : rows[i].user_id = user_id}

\* A title lookup that wants the whole title, letter for letter.
TitleEquals(rows, user_id, text) ==
    {i \in OwnedBy(rows, user_id) : rows[i].title = text}

\* ... .where(Todo.user_id == user_id, Todo.title.ilike(f"%{text}%"))
TitleMatches(rows, user_id, text) ==
    {i \in OwnedBy(rows, user_id) : ilike(rows[i].title, ContainsPattern(text))}

\* The id lookup without its owner filter.
ByIdAnyOwner(rows, user_id, todo_id) ==
    {i \in DOMAIN rows : i = todo_id}

\* ... .where(Todo.id == todo_id, Todo.user_id == user_id).scalar_one_or_none()
ById(rows, user_id, todo_id) ==
    {i \in OwnedBy(rows, user_id) : i = todo_id}

\* .order_by(Todo.created_at.desc())
RECURSIVE NewestFirst(_, _)
NewestFirst(rows, ids) ==
    IF ids = {} THEN <<>>
    ELSE LET top == CHOOSE i \in ids :
                      \A j \in ids : rows[j].created_at <= rows[i].created_at
         IN  <<top>> \o NewestFirst(rows, ids \ {top})

\* The result of a tool or of a REST handler.  raised names the exception
\* that left the call ("none": it returned); status is the HTTP status of a
\* REST response (0 for a tool envelope).
NoResult ==
    [raised |-> "none", status |-> 0, success |-> FALSE, message |-> <<>>,
     todo |-> <<>>, todos |-> <<>>, matches |-> {}, total |-> -1,
     deleted_count |-> -1, detail |-> "", conversations |-> {},
     messages |-> <<>>]

Raise(exc) ==
    [NoResult EXCEPT !.raised = exc]

Out(db, res) ==
    [db |-> db, result |-> res]

\* {"id": str(todo.id), "title": ..., "completed": ...}
TodoDict(t) ==
    [id |-> IdStr(t.id), title |-> t.title, completed |-> t.completed]

\* {"id": ..., "title": ..., "completed": ..., "created_at": ...}
TodoListDict(t) ==
    [id |-> IdStr(t.id), title |-> t.title, completed |-> t.completed,
     created_at |-> t.created_at]

\* [{"id": str(t.id), "title": t.title} for t in todos]
MatchDicts(rows, ids) ==
    {[id |-> IdStr(i), title |-> rows[i].title] : i \in ids}

create_todo_tool(db, user_id, title) ==
    IF ~IsStr(title) THEN Out(db, Raise("AttributeError"))
    ELSE LET now  == db.clock + 1
             todo == Todo(db.nextTodoId, Strip(title), user_id, now)
         IN  Out([todos |-> (todo.id :> todo) @@ db.todos,
                  clock |-> now,
                  nextTodoId |-> db.nextTodoId + 1],
                 [NoResult EXCEPT !.success = TRUE,
                                  !.todo = <<TodoListDict(todo)>>,
                                  !.message = <<"Created todo: ", todo.title>>])

\* `not include_completed`: None, False and the empty text are falsy.
Truthy(v) ==
    v \notin {JNull, JFalse, <<>>}

\* list_todos_tool without the include_completed filter.
list_todos_tool_unfiltered(db, user_id, include_completed) ==
    LET srt  == NewestFirst(db.todos, OwnedBy(db.todos, user_id))
        list == [k \in 1..Len(srt) |-> TodoListDict(db.todos[srt[k]])]
    IN  Out(db, [NoResult EXCEPT !.success = TRUE,
                                 !.todos = list,
                                 !.total = Len(list),
                                 !.message = <<"Found n todo(s)", <<>>>>])

\* list_todos_tool with the rows in ascending order of created_at.
list_todos_tool_oldest_first(db, user_id, include_completed) ==
    LET ids  == IF ~Truthy(include_completed)
                THEN {i \in OwnedBy(db.todos, user_id) : db.todos[i].completed = FALSE}
                ELSE OwnedBy(db.todos, user_id)
        srt  == NewestFirst(db.todos, ids)
        list == [k \in 1..Len(srt) |-> TodoListDict(db.todos[srt[Len(srt) + 1 - k]])]
    IN  Out(db, [NoResult EXCEPT !.success = TRUE,
                                 !.todos = list,
                                 !.total = Len(list),
                                 !.message = <<"Found n todo(s)", <<>>>>])

list_todos_tool(db, user_id, include_completed) ==
    LET ids  == IF ~Truthy(include_completed)
                THEN {i \in OwnedBy(db.todos, user_id) : db.todos[i].completed = FALSE}
                ELSE OwnedBy(db.todos, user_id)
        srt  == NewestFirst(db.todos, ids)
        list == [k \in 1..Len(srt) |-> TodoListDict(db.todos[srt[k]])]
    IN  Out(db, [NoResult EXCEPT !.success = TRUE,
                                 !.todos = list,
                                 !.total = Len(list),
                                 !.message = <<"Found n todo(s)", <<>>>>])

----------------------------------------------------------------------------
(* The four mutating tools.  Each carries its own copy of the lookup, as   *)
(* in the source.                                                          *)

NotFoundEnvelope(todo_identifier) ==
    [NoResult EXCEPT !.message = <<"No todo found matching ", todo_identifier>>]

MultipleEnvelope(rows, ids, todo_identifier) ==
    [NoResult EXCEPT !.message = <<"Multiple todos match ", todo_identifier>>,
                     !.matches = MatchDicts(rows, ids)]

The(ids) ==
    CHOOSE i \in ids : TRUE

\* todo.<field> = value; todo.updated_at = datetime.utcnow(); commit
Touch(db, id, field, value) ==
    [db EXCEPT !.clock = db.clock + 1,
               !.todos[id] = [[db.todos[id] EXCEPT ![field] = value]
                                 EXCEPT !.updated_at = db.clock + 1]]

\* A lookup that takes the first of several title matches.
complete_lookup_first(db, user_id, todo_identifier) ==
    IF todo_identifier = JNull THEN [kind |-> "raise", exc |-> "TypeError", ids |-> {}]
    ELSE LET todo  == IF IsUUIDText(todo_identifier)
                      THEN ById(db.todos, user_id, UUID(todo_identifier))
                      ELSE {}
             found == TitleMatches(db.todos, user_id, todo_identifier)
         IN  IF todo # {} THEN [kind |-> "todo", exc |-> "", ids |-> todo]
             ELSE IF Cardinality(found) = 0
                  THEN [kind |-> "none", exc |-> "", ids |-> {}]
                  ELSE [kind |-> "todo", exc |-> "",
                        ids |-> {CHOOSE i \in found : \A j \in found : i <= j}]

\* A lookup that takes whichever of several title matches the database
\* returns first: the lowest id on an even clock, the highest on an odd one.
complete_lookup_unordered(db, user_id, todo_identifier) ==
    IF todo_identifier = JNull THEN [kind |-> "raise", exc |-> "TypeError", ids |-> {}]
    ELSE LET todo  == IF IsUUIDText(todo_identifier)
                      THEN ById(db.todos, user_id, UUID(todo_identifier))
                      ELSE {}
             found == TitleMatches(db.todos, user_id, todo_identifier)
         IN  IF todo # {} THEN [kind |-> "todo", exc |-> "", ids |-> todo]
             ELSE IF Cardinality(found) = 0
                  THEN [kind |-> "none", exc |-> "", ids |-> {}]
                  ELSE [kind |-> "todo", exc |-> "",
                        ids |-> IF db.clock % 2 = 0
                                THEN {CHOOSE i \in found : \A j \in found : i <= j}
                                ELSE {CHOOSE i \in found : \A j \in found : i >= j}]

\* The lookup of complete_todo_tool: exact id scoped to the user, else title.
complete_lookup(db, user_id, todo_identifier) ==
    IF todo_identifier = JNull THEN [kind |-> "raise", exc |-> "TypeError", ids |-> {}]
    ELSE LET todo  == IF IsUUIDText(todo_identifier)
                      THEN ById(db.todos, user_id, UUID(todo_identifier))
                      ELSE {}
             found == TitleMatches(db.todos, user_id, todo_identifier)
         IN  IF todo # {} THEN [kind |-> "todo", exc |-> "", ids |-> todo]
             ELSE IF Cardinality(found) = 0
                  THEN [kind |-> "none", exc |-> "", ids |-> {}]
                  ELSE IF Cardinality(found) > 1
                       THEN [kind |-> "many", exc |-> "", ids |-> found]
                       ELSE [kind |-> "todo", exc |-> "", ids |-> found]

complete_todo_tool(db, user_id, todo_identifier) ==
    LET r == complete_lookup(db, user_id, todo_identifier)
    IN  CASE r.kind = "raise" -> Out(db, Raise(r.exc))
          [] r.kind = "none"  -> Out(db, NotFoundEnvelope(todo_identifier))
          [] r.kind = "many"  -> Out(db, MultipleEnvelope(db.todos, r.ids, todo_identifier))
          [] r.kind = "todo"  ->
               LET id == The(r.ids)
               IN  IF db.todos[id].completed
                   THEN Out(db, [NoResult EXCEPT
                                   !.success = TRUE,
                                   !.message = <<"is already completed", db.todos[id].title>>,
                                   !.todo = <<[TodoDict(db.todos[id]) EXCEPT !.completed = TRUE]>>])
                   ELSE LET db2 == Touch(db, id, "completed", TRUE)
                        IN  Out(db2, [NoResult EXCEPT
                                        !.success = TRUE,
                                        !.message = <<"Marked as completed", db2.todos[id].title>>,
                                        !.todo = <<TodoDict(db2.todos[id])>>])

\* A lookup that takes the first of several title matches.
uncomplete_lookup_first_match(db, user_id, todo_identifier) ==
    IF todo_identifier = JNull THEN [kind |-> "raise", exc |-> "TypeError", ids |-> {}]
    ELSE LET todo  == IF IsUUIDText(todo_identifier)
                      THEN ById(db.todos, user_id, UUID(todo_identifier))
                      ELSE {}
             found == TitleMatches(db.todos, user_id, todo_identifier)
         IN  IF todo # {} THEN [kind |-> "todo", exc |-> "", ids |-> todo]
             ELSE IF Cardinality(found) = 0
                  THEN [kind |-> "none", exc |-> "", ids |-> {}]
                  ELSE [kind |-> "todo", exc |-> "",
                        ids |-> {CHOOSE i \in found : \A j \in found : i <= j}]

\* The lookup of uncomplete_todo_tool: exact id scoped to the user, else title.
uncomplete_lookup(db, user_id, todo_identifier) ==
    IF todo_identifier = JNull THEN [kind |-> "raise", exc |-> "TypeError", ids |-> {}]
    ELSE LET todo  == IF IsUUIDText(todo_identifier)
                      THEN ById(db.todos, user_id, UUID(todo_identifier))
                      ELSE {}
             found == TitleMatches(db.todos, user_id, todo_identifier)
         IN  IF todo # {} THEN [kind |-> "todo", exc |-> "", ids |-> todo]
             ELSE IF Cardinality(found) = 0
                  THEN [kind |-> "none", exc |-> "", ids |-> {}]
                  ELSE IF Cardinality(found) > 1
                       THEN [kind |-> "many", exc |-> "", ids |-> found]
                       ELSE [kind |-> "todo", exc |-> "", ids |-> found]

\* uncomplete_todo_tool without its `if not todo.completed` early return.
uncomplete_todo_tool_always(db, user_id, todo_identifier) ==
    LET r == uncomplete_lookup(db, user_id, todo_identifier)
    IN  CASE r.kind = "raise" -> Out(db, Raise(r.exc))
          [] r.kind = "none"  -> Out(db, NotFoundEnvelope(todo_identifier))
          [] r.kind = "many"  -> Out(db, MultipleEnvelope(db.todos, r.ids, todo_identifier))
          [] r.kind = "todo"  ->
               LET id  == The(r.ids)
                   db2 == Touch(db, id, "completed", FALSE)
               IN  Out(db2, [NoResult EXCEPT
                               !.success = TRUE,
                               !.message = <<"Marked as not completed", db2.todos[id].title>>,
                               !.todo = <<TodoDict(db2.todos[id])>>])

uncomplete_todo_tool(db, user_id, todo_identifier) ==
    LET r == uncomplete_lookup(db, user_id, todo_identifier)
    IN  CASE r.kind = "raise" -> Out(db, Raise(r.exc))
          [] r.kind = "none"  -> Out(db, NotFoundEnvelope(todo_identifier))
          [] r.kind = "many"  -> Out(db, MultipleEnvelope(db.todos, r.ids, todo_identifier))
          [] r.kind = "todo"  ->
               LET id == The(r.ids)
               IN  IF ~db.todos[id].completed
                   THEN Out(db, [NoResult EXCEPT
                                   !.success = TRUE,
                                   !.message = <<"is not completed yet", db.todos[id].title>>,
                                   !.todo = <<[TodoDict(db.todos[id]) EXCEPT !.completed = FALSE]>>])
                   ELSE LET db2 == Touch(db, id, "completed", FALSE)
                        IN  Out(db2, [NoResult EXCEPT
                                        !.success = TRUE,
                                        !.message = <<"Marked as not completed", db2.todos[id].title>>,
                                        !.todo = <<TodoDict(db2.todos[id])>>])

\* A lookup that searches the titles first and tries the id only when no
\* title matches.
delete_lookup_title_first(db, user_id, todo_identifier) ==
    IF todo_identifier = JNull THEN [kind |-> "raise", exc |-> "TypeError", ids |-> {}]
    ELSE LET todo  == IF IsUUIDText(todo_identifier)
                      THEN ById(db.todos, user_id, UUID(todo_identifier))
                      ELSE {}
             found == TitleMatches(db.todos, user_id, todo_identifier)
         IN  IF Cardinality(found) > 1
             THEN [kind |-> "many", exc |-> "", ids |-> found]
             ELSE IF Cardinality(found) = 1
                  THEN [kind |-> "todo", exc |-> "", ids |-> found]
                  ELSE IF todo # {} THEN [kind |-> "todo", exc |-> "", ids |-> todo]
                       ELSE [kind |-> "none", exc |-> "", ids |-> {}]

\* The lookup of delete_todo_tool: exact id scoped to the user, else title.
delete_lookup(db, user_id, todo_identifier) ==
    IF todo_identifier = JNull THEN [kind |-> "raise", exc |-> "TypeError", ids |-> {}]
    ELSE LET todo  == IF IsUUIDText(todo_identifier)
                      THEN ById(db.todos, user_id, UUID(todo_identifier))
                      ELSE {}
             found == TitleMatches(db.todos, user_id, todo_identifier)
         IN  IF todo # {} THEN [kind |-> "todo", exc |-> "", ids |-> todo]
             ELSE IF Cardinality(found) = 0
                  THEN [kind |-> "none", exc |-> "", ids |-> {}]
                  ELSE IF Cardinality(found) > 1
                       THEN [kind |-> "many", exc |-> "", ids |-> found]
                       ELSE [kind |-> "todo", exc |-> "", ids |-> found]

\* db.delete(todo); commit
DeleteRows(db, ids) ==
    [db EXCEPT !.todos = [i \in DOMAIN db.todos \ ids |-> db.todos[i]]]

delete_todo_tool(db, user_id, todo_identifier) ==
    LET r == delete_lookup(db, user_id, todo_identifier)
    IN  CASE r.kind = "raise" -> Out(db, Raise(r.exc))
          [] r.kind = "none"  -> Out(db, NotFoundEnvelope(todo_identifier))
          [] r.kind = "many"  -> Out(db, MultipleEnvelope(db.todos, r.ids, todo_identifier))
          [] r.kind = "todo"  ->
               LET id == The(r.ids)
               IN  Out(DeleteRows(db, {id}),
                       [NoResult EXCEPT !.success = TRUE,
                                        !.message = <<"Deleted todo: ", db.todos[id].title>>])

\* A sweep that selects the completed todos of every user.
delete_completed_todos_of_all(db, user_id) ==
    LET completed_todos == {i \in DOMAIN db.todos : db.todos[i].completed = TRUE}
    IN  IF completed_todos = {}
        THEN Out(db, [NoResult EXCEPT !.success = TRUE,
                                      !.message = <<"No completed todos to delete", <<>>>>,
                                      !.deleted_count = 0])
        ELSE Out(DeleteRows(db, completed_todos),
                 [NoResult EXCEPT !.success = TRUE,
                                  !.message = <<"Deleted n completed todo(s)", <<>>>>,
                                  !.deleted_count = Cardinality(completed_todos)])

delete_completed_todos_tool(db, user_id) ==
    LET completed_todos == {i \in OwnedBy(db.todos, user_id) : db.todos[i].completed = TRUE}
    IN  IF completed_todos = {}
        THEN Out(db, [NoResult EXCEPT !.success = TRUE,
                                      !.message = <<"No completed todos to delete", <<>>>>,
                                      !.deleted_count = 0])
        ELSE Out(DeleteRows(db, completed_todos),
                 [NoResult EXCEPT !.success = TRUE,
                                  !.message = <<"Deleted n completed todo(s)", <<>>>>,
                                  !.deleted_count = Cardinality(completed_todos)])

\* The lookup of update_todo_tool: exact id scoped to the user, else title.
update_lookup(db, user_id, todo_identifier) ==
    IF todo_identifier = JNull THEN [kind |-> "raise", exc |-> "TypeError", ids |-> {}]
    ELSE LET todo  == IF IsUUIDText(todo_identifier)
                      THEN ById(db.todos, user_id, UUID(todo_identifier))
                      ELSE {}
             found == TitleMatches(db.todos, user_id, todo_identifier)
         IN  IF todo # {} THEN [kind |-> "todo", exc |-> "", ids |-> todo]
             ELSE IF Cardinality(found) = 0
                  THEN [kind |-> "none", exc |-> "", ids |-> {}]
                  ELSE IF Cardinality(found) > 1
                       THEN [kind |-> "many", exc |-> "", ids |-> found]
                       ELSE [kind |-> "todo", exc |-> "", ids |-> found]

update_todo_tool(db, user_id, todo_identifier, new_title) ==
    LET r == update_lookup(db, user_id, todo_identifier)
    IN  CASE r.kind = "raise" -> Out(db, Raise(r.exc))
          [] r.kind = "none"  -> Out(db, NotFoundEnvelope(todo_identifier))
          [] r.kind = "many"  -> Out(db, MultipleEnvelope(db.todos, r.ids, todo_identifier))
          [] r.kind = "todo"  ->
               LET id == The(r.ids)
               IN  IF ~IsStr(new_title) THEN Out(db, Raise("AttributeError"))
                   ELSE LET db2 == Touch(db, id, "title", Strip(new_title))
                        IN  Out(db2, [NoResult EXCEPT
                                        !.success = TRUE,
                                        !.message = <<"Updated", db.todos[id].title>>,
                                        !.todo = <<TodoDict(db2.todos[id])>>])

search_todos_tool(db, user_id, query) ==
    LET srt  == NewestFirst(db.todos, TitleMatches(db.todos, user_id, query))
        list == [k \in 1..Len(srt) |-> TodoListDict(db.todos[srt[k]])]
    IN  Out(db, [NoResult EXCEPT !.success = TRUE,
                                 !.todos = list,
                                 !.total = Len(list),
                                 !.message = <<"Found n todo(s) matching ", FormatStr(query)>>])

----------------------------------------------------------------------------
(* The executor (services/ai_agent.py).  arguments is the parsed argument  *)
(* bag: a record over ArgNames whose absent keys hold JMissing.            *)

ArgNames ==
    {"title", "include_completed", "todo_identifier", "new_title", "query"}

NoArgs ==
    [k \in ArgNames |-> JMissing]

\* arguments[key]
Subscript(db, arguments, keys, call) ==
    IF \E k \in keys : arguments[k] = JMissing
    THEN Out(db, Raise("KeyError"))
    ELSE call

\* A dispatcher that rejects an unknown name with an exception.
unknown_tool_raises(db, tool_name) ==
    Out(db, Raise("ValueError"))

\* else: return {"success": False, "message": f"Unknown tool: {tool_name}"}
unknown_tool(db, tool_name) ==
    Out(db, [NoResult EXCEPT !.message = <<"Unknown tool: ", <<tool_name>>>>])

execute_tool(tool_name, arguments, db, user_id) ==
    CASE tool_name = "create_todo" ->
           Subscript(db, arguments, {"title"},
                     create_todo_tool(db, user_id, arguments["title"]))
      [] tool_name = "list_todos" ->
           list_todos_tool(db, user_id,
                           IF arguments["include_completed"] = JMissing
                           THEN JTrue ELSE arguments["include_completed"])
      [] tool_name = "complete_todo" ->
           Subscript(db, arguments, {"todo_identifier"},
                     complete_todo_tool(db, user_id, arguments["todo_identifier"]))
      [] tool_name = "uncomplete_todo" ->
           Subscript(db, arguments, {"todo_identifier"},
                     uncomplete_todo_tool(db, user_id, arguments["todo_identifier"]))
      [] tool_name = "delete_todo" ->
           Subscript(db, arguments, {"todo_identifier"},
                     delete_todo_tool(db, user_id, arguments["todo_identifier"]))
      [] tool_name = "delete_completed_todos" ->
           delete_completed_todos_tool(db, user_id)
      [] tool_name = "update_todo" ->
           Subscript(db, arguments, {"todo_identifier", "new_title"},
                     update_todo_tool(db, user_id, arguments["todo_identifier"],
                                      arguments["new_title"]))
      [] tool_name = "search_todos" ->
           Subscript(db, arguments, {"query"},
                     search_todos_tool(db, user_id, arguments["query"]))
      [] OTHER ->
           unknown_tool(db, tool_name)

----------------------------------------------------------------------------
(* REST handlers of routers/todos.py.  todo_id is a parsed UUID.           *)

\* TodoResponse
TodoResponse(t) ==
    [id |-> IdStr(t.id), title |-> t.title, completed |-> t.completed,
     user_id |-> t.user_id, created_at |-> t.created_at,
     updated_at |-> t.updated_at]

Http(code) ==
    [NoResult EXCEPT !.status = code]

TodoNotFound ==
    [NoResult EXCEPT !.status = 404, !.detail = "Todo not found"]

\* TodoCreate: title: str = Field(..., min_length=1, max_length=500)
TodoCreate(title) ==
    IsStr(title) /\ Len(title) >= 1

\* TodoUpdate: title: str | None = Field(None, min_length=1, max_length=500)
\*             completed: bool | None = None
TodoUpdate(title, completed) ==
    /\ title \in {JMissing, JNull} \/ (IsStr(title) /\ Len(title) >= 1)
    /\ completed \in {JMissing, JNull, JTrue, JFalse}

list_todos(db, user_id) ==
    LET srt  == NewestFirst(db.todos, OwnedBy(db.todos, user_id))
    IN  Out(db, [NoResult EXCEPT
                   !.status = 200,
                   !.todos = [k \in 1..Len(srt) |-> TodoResponse(db.todos[srt[k]])]])

create_todo(db, user_id, title) ==
    IF ~TodoCreate(title) THEN Out(db, Http(422))
    ELSE LET now  == db.clock + 1
             todo == Todo(db.nextTodoId, Strip(title), user_id, now)
         IN  Out([todos |-> (todo.id :> todo) @@ db.todos,
                  clock |-> now,
                  nextTodoId |-> db.nextTodoId + 1],
                 [NoResult EXCEPT !.status = 201, !.todo = <<TodoResponse(todo)>>])

\* A handler that answers 403 for a todo of another owner.
get_todo_forbidden(db, user_id, todo_id) ==
    LET todo == ById(db.todos, user_id, todo_id)
    IN  IF todo = {}
        THEN IF todo_id \in DOMAIN db.todos THEN Out(db, Http(403))
             ELSE Out(db, TodoNotFound)
        ELSE Out(db, [NoResult EXCEPT !.status = 200,
                                      !.todo = <<TodoResponse(db.todos[The(todo)])>>])

get_todo(db, user_id, todo_id) ==
    LET todo == ById(db.todos, user_id, todo_id)
    IN  IF todo = {} THEN Out(db, TodoNotFound)
        ELSE Out(db, [NoResult EXCEPT !.status = 200,
                                      !.todo = <<TodoResponse(db.todos[The(todo)])>>])

update_todo(db, user_id, todo_id, title, completed) ==
    IF ~TodoUpdate(title, completed) THEN Out(db, Http(422))
    ELSE LET todo == ById(db.todos, user_id, todo_id)
         IN  IF todo = {} THEN Out(db, TodoNotFound)
             ELSE LET id  == The(todo)
                      old == db.todos[id]
                      new == [old EXCEPT
                                !.title = IF title \in {JMissing, JNull}
                                          THEN old.title ELSE Strip(title),
                                !.completed = IF completed \in {JMissing, JNull}
                                              THEN old.completed
                                              ELSE completed = JTrue,
                                !.updated_at = db.clock + 1]
                  IN  Out([db EXCEPT !.clock = db.clock + 1, !.todos[id] = new],
                          [NoResult EXCEPT !.status = 200,
                                           !.todo = <<TodoResponse(new)>>])

delete_todo(db, user_id, todo_id) ==
    LET todo == ById(db.todos, user_id, todo_id)
    IN  IF todo = {} THEN Out(db, TodoNotFound)
        ELSE Out(DeleteRows(db, todo), Http(204))

----------------------------------------------------------------------------
(* State.                                                                  *)

Slots ==
    {"r1"}

\* response.choices[0].message of a reply that has not arrived.
NoReply ==
    [fail |-> "", tool_calls |-> <<>>, content |-> JNull]

\* One request to /api/chat or /api/chat/stream: its position (pc), its
\* locals, what the client has received so far (status, detail, events), and
\* the number of calls of client.chat.completions.create it has made (calls).
IdleRequest ==
    [pc |-> "idle", endpoint |-> "", user |-> "", message |-> <<>>,
     conv |-> NoId, history |-> <<>>, user_msg |-> NoId, context |-> <<>>,
     reply |-> NoReply, pending |-> <<>>, tool_calls_made |-> <<>>,
     rounds |-> 0, calls |-> 0, chunks |-> <<>>, events |-> <<>>, error |-> "",
     status |-> 0, detail |-> <<>>]

NoOp ==
    [op |-> "none", user |-> "", tool |-> "", arguments |-> NoArgs,
     id |-> NoId, slot |-> ""]

\* The database the tools and the todo handlers work on.
Db ==
    [todos |-> todos, clock |-> clock, nextTodoId |-> nextTodoId]

\* At most MaxTodos todos are ever created and at most MaxUpdates updates
\* stamped: the clock ticks once for each of them.
InBounds(db) ==
    /\ db.nextTodoId <= MaxTodos + 1
    /\ db.clock - (db.nextTodoId - 1) <= MaxUpdates

Commit(out) ==
    /\ InBounds(out.db)
    /\ todos' = out.db.todos
    /\ clock' = out.db.clock
    /\ nextTodoId' = out.db.nextTodoId
    /\ result' = out.result

Init ==
    /\ todos = <<>>
    /\ clock = 0
    /\ nextTodoId = 1
    /\ conversations = <<>>
    /\ messages = <<>>
    /\ nextConvId = 1
    /\ nextMsgId = 1
    /\ requests = [s \in Slots |-> IdleRequest]
    /\ lastOp = NoOp
    /\ result = NoResult

----------------------------------------------------------------------------
(* Inputs.                                                                 *)

TitleInputs ==
    { <<"A", "1">>, <<" ", "a", " ">>, <<" ">> }

IdentInputs ==
    { <<"a">>, <<"1">> }

ToolNames ==
    {"create_todo", "list_todos", "complete_todo", "uncomplete_todo",
     "delete_todo", "delete_completed_todos", "update_todo", "search_todos"}

MutatingTools ==
    {"complete_todo", "uncomplete_todo", "delete_todo", "update_todo"}

Bag(key, value) ==
    [NoArgs EXCEPT ![key] = value]

\* The argument bags the model of the LLM may send for a tool.
ArgBags(tool_name) ==
    CASE tool_name = "create_todo" ->
           {Bag("title", v) : v \in TitleInputs \cup {JNull, JMissing}}
      [] tool_name = "list_todos" ->
           {Bag("include_completed", v) : v \in {JMissing, JTrue, JFalse, JNull}}
      [] tool_name \in {"complete_todo", "uncomplete_todo", "delete_todo"} ->
           {Bag("todo_identifier", v) : v \in IdentInputs \cup {JNull, JMissing}}
      [] tool_name = "update_todo" ->
           {[Bag("todo_identifier", v) EXCEPT !["new_title"] = w] :
              v \in IdentInputs, w \in {<<" ", "a", " ">>, <<" ">>}}
           \cup {[Bag("todo_identifier", v) EXCEPT !["new_title"] = <<"a">>] :
                   v \in {JNull, JMissing}}
           \cup {[Bag("todo_identifier", <<"a">>) EXCEPT !["new_title"] = w] :
                   w \in {JNull, JMissing}}
      [] tool_name = "search_todos" ->
           {Bag("query", v) : v \in IdentInputs \cup {JNull, JMissing}}
      [] OTHER ->
           {NoArgs, Bag("todo_identifier", <<"1">>)}

\* The bodies PUT /api/todos/{id} is called with: <<title, completed>>.
UpdateInputs ==
    { <<JMissing, JMissing>>, <<JMissing, JTrue>>,
      <<<<" ">>, JMissing>>, <<<<>>, JMissing>> }

TodoIds ==
    1..(MaxTodos + 1)

----------------------------------------------------------------------------
(* Actions on the todo store.                                              *)

UnchangedChat ==
    UNCHANGED <<conversations, messages, nextConvId, nextMsgId, requests>>

\* execute_tool on behalf of user_id, as a chat turn of that user calls it.
ExecuteTool(user_id, tool_name, arguments) ==
    /\ Commit(execute_tool(tool_name, arguments, Db, user_id))
    /\ lastOp' = [NoOp EXCEPT !.op = "execute_tool", !.user = user_id,
                              !.tool = tool_name, !.arguments = arguments]
    /\ UnchangedChat

ListTodos(user_id) ==
    /\ Commit(list_todos(Db, user_id))
    /\ lastOp' = [NoOp EXCEPT !.op = "list_todos", !.user = user_id]
    /\ UnchangedChat

CreateTodo(user_id, title) ==
    /\ Commit(create_todo(Db, user_id, title))
    /\ lastOp' = [NoOp EXCEPT !.op = "create_todo", !.user = user_id,
                              !.arguments = Bag("title", title)]
    /\ UnchangedChat

GetTodo(user_id, todo_id) ==
    /\ Commit(get_todo(Db, user_id, todo_id))
    /\ lastOp' = [NoOp EXCEPT !.op = "get_todo", !.user = user_id, !.id = todo_id]
    /\ UnchangedChat

UpdateTodo(user_id, todo_id, title, completed) ==
    /\ Commit(update_todo(Db, user_id, todo_id, title, completed))
    /\ lastOp' = [NoOp EXCEPT !.op = "update_todo", !.user = user_id, !.id = todo_id,
                              !.arguments = [Bag("title", title) EXCEPT
                                               !["include_completed"] = completed]]
    /\ UnchangedChat

DeleteTodo(user_id, todo_id) ==
    /\ Commit(delete_todo(Db, user_id, todo_id))
    /\ lastOp' = [NoOp EXCEPT !.op = "delete_todo", !.user = user_id, !.id = todo_id]
    /\ UnchangedChat

----------------------------------------------------------------------------
(* Conversations and messages (models/conversation.py) and the handlers of *)
(* routers/chat.py.  The message table is kept in creation order, which is *)
(* the order_by(Message.created_at.asc()) of every query on it.            *)

NewChat ==
    <<"N", "e", "w", " ", "C", "h", "a", "t">>

TitleWords == 5

HistoryWindow == 20

Fallback ==
    <<"I'm sorry, I couldn't process that request.">>

SYSTEM_PROMPT ==
    <<"SYSTEM_PROMPT">>

Conversation(id, user_id) ==
    [id |-> id, user_id |-> user_id, title |-> NewChat]

Message(id, conversation_id, role, content, tool_calls) ==
    [id |-> id, conversation_id |-> conversation_id, role |-> role,
     content |-> content, tool_calls |-> tool_calls]

\* select(Message).where(Message.conversation_id == id).order_by(created_at)
MessagesOf(conversation_id) ==
    SelectSeq(messages, LAMBDA m : m.conversation_id = conversation_id)

\* The conversation lookup without its owner filter.
ConversationOfAnyOwner(user_id, conversation_id) ==
    {c \in DOMAIN conversations : c = conversation_id}

\* select(Conversation).where(Conversation.id == id, Conversation.user_id == user_id)
ConversationOf(user_id, conversation_id) ==
    {c \in DOMAIN conversations :
       c = conversation_id /\ conversations[c].user_id = user_id}

ConversationNotFound ==
    [NoResult EXCEPT !.status = 404, !.detail = "Conversation not found"]

ServerError ==
    [NoResult EXCEPT !.status = 500, !.detail = "An internal server error occurred"]

\* str.split(): the maximal runs of non-space characters.
FirstSpace(s) ==
    IF \E i \in 1..Len(s) : IsSpace(s[i])
    THEN CHOOSE i \in 1..Len(s) :
           IsSpace(s[i]) /\ \A j \in 1..(i - 1) : ~IsSpace(s[j])
    ELSE Len(s) + 1

RECURSIVE Split(_)
Split(s) ==
    LET t == LStrip(s)
    IN  IF t = <<>> THEN <<>>
        ELSE <<SubSeq(t, 1, FirstSpace(t) - 1)>>
             \o Split(SubSeq(t, FirstSpace(t), Len(t)))

\* " ".join(words)
RECURSIVE Join(_)
Join(words) ==
    IF words = <<>> THEN <<>>
    ELSE IF Len(words) = 1 THEN words[1]
         ELSE words[1] \o <<" ">> \o Join(Tail(words))

FirstN(seq, n) ==
    SubSeq(seq, 1, IF Len(seq) < n THEN Len(seq) ELSE n)

LastN(seq, n) ==
    SubSeq(seq, IF Len(seq) < n THEN 1 ELSE Len(seq) - n + 1, Len(seq))

\* A derivation that adds the ellipsis from five words on.
DeriveTitleEllipsisAtFive(message) ==
    Join(FirstN(Split(message), TitleWords))
    \o (IF Len(Split(message)) >= TitleWords THEN <<".", ".", ".">> ELSE <<>>)

\* " ".join(message.split()[:5]) + ("..." if len(message.split()) > 5 else "")
DeriveTitle(message) ==
    Join(FirstN(Split(message), TitleWords))
    \o (IF Len(Split(message)) > TitleWords THEN <<".", ".", ".">> ELSE <<>>)

\* if len(history_messages) == 0: conversation.title = ...
TitleAfterTurn(convs, r) ==
    IF Len(r.history) = 0
    THEN [convs EXCEPT ![r.conv].title = DeriveTitle(r.message)]
    ELSE convs

UnchangedTodos ==
    UNCHANGED <<todos, clock, nextTodoId>>

ConvView(c) ==
    [id |-> c.id, user_id |-> c.user_id, title |-> c.title]

list_conversations(user_id) ==
    /\ result' = [NoResult EXCEPT
                    !.status = 200,
                    !.conversations =
                       {ConvView(conversations[c]) :
                          c \in {d \in DOMAIN conversations :
                                   conversations[d].user_id = user_id}}]
    /\ lastOp' = [NoOp EXCEPT !.op = "list_conversations", !.user = user_id]
    /\ UNCHANGED <<conversations, messages, nextConvId, nextMsgId, requests>>
    /\ UnchangedTodos

create_conversation(user_id) ==
    /\ nextConvId <= MaxConvs
    /\ conversations' = (nextConvId :> Conversation(nextConvId, user_id)) @@ conversations
    /\ nextConvId' = nextConvId + 1
    /\ result' = [NoResult EXCEPT
                    !.status = 201,
                    !.conversations = {ConvView(Conversation(nextConvId, user_id))}]
    /\ lastOp' = [NoOp EXCEPT !.op = "create_conversation", !.user = user_id]
    /\ UNCHANGED <<messages, nextMsgId, requests>>
    /\ UnchangedTodos

get_conversation(user_id, conversation_id) ==
    /\ result' = IF ConversationOf(user_id, conversation_id) = {}
                 THEN ConversationNotFound
                 ELSE [NoResult EXCEPT
                         !.status = 200,
                         !.conversations = {ConvView(conversations[conversation_id])},
                         !.messages = MessagesOf(conversation_id)]
    /\ lastOp' = [NoOp EXCEPT !.op = "get_conversation", !.user = user_id,
                              !.id = conversation_id]
    /\ UNCHANGED <<conversations, messages, nextConvId, nextMsgId, requests>>
    /\ UnchangedTodos

delete_conversation(user_id, conversation_id) ==
    /\ IF ConversationOf(user_id, conversation_id) = {}
       THEN /\ result' = ConversationNotFound
            /\ UNCHANGED <<conversations, messages>>
       ELSE /\ messages' = SelectSeq(messages,
                                     LAMBDA m : m.conversation_id # conversation_id)
            /\ conversations' = [c \in DOMAIN conversations \ {conversation_id}
                                   |-> conversations[c]]
            /\ result' = Http(204)
    /\ lastOp' = [NoOp EXCEPT !.op = "delete_conversation", !.user = user_id,
                              !.id = conversation_id]
    /\ UNCHANGED <<nextConvId, nextMsgId, requests>>
    /\ UnchangedTodos

----------------------------------------------------------------------------
(* The todo and conversation endpoints with the tools, every handler one   *)
(* step.  The database holds no todo yet and the conversation that one     *)
(* chat turn of user B has left behind (a state ChatSpec reaches).         *)

ConvIds ==
    0..(MaxConvs + 1)

Hi ==
    <<"h", "i">>

Ok ==
    <<"o", "k">>

InitStore ==
    /\ todos = <<>>
    /\ clock = 0
    /\ nextTodoId = 1
    /\ conversations = (1 :> [Conversation(1, "B") EXCEPT !.title = DeriveTitle(Hi)])
    /\ messages = <<Message(1, 1, "user", Hi, <<>>),
                    Message(2, 1, "assistant", Ok, <<>>)>>
    /\ nextConvId = 2
    /\ nextMsgId = 3
    /\ requests = [s \in Slots |-> IdleRequest]
    /\ lastOp = NoOp
    /\ result = NoResult

NextStore ==
    \/ \E u \in Users, t \in ToolNames \cup {"bogus"} :
         \E a \in ArgBags(t) : ExecuteTool(u, t, a)
    \/ \E u \in Users : ListTodos(u)
    \/ \E u \in Users, v \in TitleInputs \cup {<<>>} : CreateTodo(u, v)
    \/ \E u \in Users, i \in TodoIds : GetTodo(u, i)
    \/ \E u \in Users, i \in TodoIds :
         \E b \in UpdateInputs : UpdateTodo(u, i, b[1], b[2])
    \/ \E u \in Users, i \in TodoIds : DeleteTodo(u, i)
    \/ \E u \in Users : list_conversations(u)
    \/ \E u \in Users, c \in ConvIds \ {NoId} : get_conversation(u, c)
    \/ \E u \in Users, c \in ConvIds \ {NoId} : delete_conversation(u, c)

Spec ==
    InitStore /\ [][NextStore]_vars

----------------------------------------------------------------------------
(* The LLM: what a call to client.chat.completions.create may return.      *)

ToolCall(name, arguments) ==
    [name |-> name, payload |-> "json", arguments |-> arguments]

\* function.arguments that json.loads rejects
MalformedCall(name) ==
    [name |-> name, payload |-> "malformed", arguments |-> NoArgs]

ToolCallLists ==
    { <<ToolCall("create_todo", Bag("title", <<"A", "1">>)),
        ToolCall("complete_todo", Bag("todo_identifier", <<"a">>))>>,
      <<ToolCall("delete_todo", Bag("todo_identifier", <<"1">>)),
        MalformedCall("list_todos")>>,
      <<ToolCall("delete_todo", Bag("todo_identifier", <<"1">>)),
        ToolCall("list_todos", NoArgs)>>,
      <<ToolCall("create_todo", NoArgs)>> }

ModelErrors ==
    {"timeout"}

ModelReplies ==
    {[NoReply EXCEPT !.fail = e] : e \in ModelErrors}
    \cup {[NoReply EXCEPT !.tool_calls = l] : l \in ToolCallLists}
    \cup {[NoReply EXCEPT !.content = c] : c \in {JNull, <<"o", "k">>}}

\* A streamed completion: the delta.content of its chunks, and the error that
\* ends the iteration after them ("": the stream ends normally).
Streams ==
    { [fail |-> "timeout", deltas |-> <<>>, breaks |-> ""],
      [fail |-> "", deltas |-> << <<"o">>, JNull, <<"k">> >>, breaks |-> ""],
      [fail |-> "", deltas |-> << JNull >>, breaks |-> ""],
      [fail |-> "", deltas |-> << <<"o">> >>, breaks |-> "reset"] }

UserMessages ==
    { <<"h", "i">>,
      <<"a", " ", " ", "b", " ", "c", " ", "d", " ", "e">>,
      <<"a", " ", "b", " ", "c", " ", "d", " ", "e", " ", "f">> }

----------------------------------------------------------------------------
(* POST /api/chat (routers/chat.py, chat) and chat_with_agent.             *)

\* The turns that have begun and have not ended.
InFlight ==
    {s \in DOMAIN requests : requests[s].pc \notin {"idle", "done", "deleting"}}

\* Room in the message table for the two messages of one more turn, after
\* the messages the turns in flight have still to write.
RoomForTurn ==
    nextMsgId
    + 2 * Cardinality({s \in InFlight : requests[s].user_msg = NoId})
    + Cardinality({s \in InFlight : requests[s].user_msg # NoId})
    + 2 <= MaxMsgs + 1

SetRequest(slot, r) ==
    requests' = [requests EXCEPT ![slot] = r]

Step(name, slot) ==
    lastOp' = [NoOp EXCEPT !.op = name, !.user = requests[slot].user, !.slot = slot]

\* messages = [system] + history + [user]: the whole history, no window.
BuildMessagesWhole(conversation_history, user_message) ==
    <<[role |-> "system", content |-> SYSTEM_PROMPT]>>
    \o conversation_history
    \o <<[role |-> "user", content |-> user_message]>>

\* messages = [system] + history[-20:] + [user]
BuildMessages(conversation_history, user_message) ==
    <<[role |-> "system", content |-> SYSTEM_PROMPT]>>
    \o LastN(conversation_history, HistoryWindow)
    \o <<[role |-> "user", content |-> user_message]>>

History(conversation_id) ==
    LET rows == MessagesOf(conversation_id)
    IN  [k \in 1..Len(rows) |-> [role |-> rows[k].role, content |-> rows[k].content]]

chat_begin(slot, user_id, conversation_id, message) ==
    /\ requests[slot].pc \in {"idle", "done"}
    /\ RoomForTurn
    /\ LET r == [IdleRequest EXCEPT !.endpoint = "chat", !.user = user_id,
                                    !.message = message]
       IN  IF conversation_id # NoId
           THEN /\ UNCHANGED <<conversations, nextConvId>>
                /\ IF ConversationOf(user_id, conversation_id) = {}
                   THEN /\ SetRequest(slot, [r EXCEPT !.pc = "done", !.status = 404])
                        /\ result' = ConversationNotFound
                   ELSE /\ SetRequest(slot, [r EXCEPT !.pc = "history",
                                                      !.conv = conversation_id])
                        /\ result' = NoResult
           ELSE /\ nextConvId <= MaxConvs
                /\ conversations' =
                     (nextConvId :> Conversation(nextConvId, user_id)) @@ conversations
                /\ nextConvId' = nextConvId + 1
                /\ SetRequest(slot, [r EXCEPT !.pc = "history", !.conv = nextConvId])
                /\ result' = NoResult
    /\ lastOp' = [NoOp EXCEPT !.op = "chat_begin", !.user = user_id, !.slot = slot,
                              !.id = conversation_id]
    /\ UNCHANGED <<messages, nextMsgId>>
    /\ UnchangedTodos

chat_history(slot) ==
    /\ requests[slot].pc = "history" /\ requests[slot].endpoint = "chat"
    /\ SetRequest(slot, [requests[slot] EXCEPT
                           !.pc = "save_user",
                           !.history = History(requests[slot].conv)])
    /\ Step("chat_history", slot)
    /\ result' = NoResult
    /\ UNCHANGED <<conversations, nextConvId, messages, nextMsgId>>
    /\ UnchangedTodos

\* db.add(user_message); commit.  The conversation_id is a foreign key: the
\* insert fails when the conversation has been deleted, and the exception
\* leaves the handler (global_exception_handler answers 500).
chat_save_user(slot) ==
    /\ requests[slot].pc = "save_user" /\ requests[slot].endpoint = "chat"
    /\ LET r == requests[slot]
       IN  IF r.conv \notin DOMAIN conversations
           THEN /\ SetRequest(slot, [r EXCEPT !.pc = "done", !.status = 500,
                                              !.error = "IntegrityError"])
                /\ result' = ServerError
                /\ UNCHANGED <<messages, nextMsgId>>
           ELSE /\ messages' = Append(messages,
                                      Message(nextMsgId, r.conv, "user", r.message, <<>>))
                /\ nextMsgId' = nextMsgId + 1
                /\ SetRequest(slot, [r EXCEPT
                                       !.pc = "model",
                                       !.user_msg = nextMsgId,
                                       !.context = BuildMessages(r.history, r.message)])
                /\ result' = NoResult
    /\ Step("chat_save_user", slot)
    /\ UNCHANGED <<conversations, nextConvId>>
    /\ UnchangedTodos

\* A loop with an iteration cap: after MaxRounds rounds of tools the reply
\* is taken as the final one, tool calls or not.
chat_with_agent_call_capped(slot, reply) ==
    /\ requests[slot].pc = "model" /\ requests[slot].endpoint = "chat"
    /\ LET r == [requests[slot] EXCEPT !.calls = @ + 1]
       IN  IF reply.fail # ""
           THEN SetRequest(slot, [r EXCEPT !.pc = "failed", !.error = reply.fail])
           ELSE IF reply.tool_calls # <<>> /\ r.rounds < MaxRounds
                THEN /\ TRUE
                     /\ SetRequest(slot, [r EXCEPT
                          !.pc = "tools",
                          !.reply = reply,
                          !.rounds = r.rounds + 1,
                          !.pending = reply.tool_calls,
                          !.context = Append(r.context,
                             [role |-> "assistant",
                              content |-> IF Truthy(reply.content)
                                          THEN reply.content ELSE <<>>,
                              tool_calls |-> reply.tool_calls])])
                ELSE SetRequest(slot, [r EXCEPT !.pc = "answer", !.reply = reply])
    /\ Step("chat_with_agent_call", slot)
    /\ result' = NoResult
    /\ UNCHANGED <<conversations, nextConvId, messages, nextMsgId>>
    /\ UnchangedTodos

\* One await client.chat.completions.create(...) of chat_with_agent and the
\* test of the while loop on its reply.
chat_with_agent_call(slot, reply) ==
    /\ requests[slot].pc = "model" /\ requests[slot].endpoint = "chat"
    /\ LET r == [requests[slot] EXCEPT !.calls = @ + 1]
       IN  IF reply.fail # ""
           THEN SetRequest(slot, [r EXCEPT !.pc = "failed", !.error = reply.fail])
           ELSE IF reply.tool_calls # <<>>
                THEN /\ r.rounds < MaxRounds
                     /\ SetRequest(slot, [r EXCEPT
                          !.pc = "tools",
                          !.reply = reply,
                          !.rounds = r.rounds + 1,
                          !.pending = reply.tool_calls,
                          !.context = Append(r.context,
                             [role |-> "assistant",
                              content |-> IF Truthy(reply.content)
                                          THEN reply.content ELSE <<>>,
                              tool_calls |-> reply.tool_calls])])
                ELSE SetRequest(slot, [r EXCEPT !.pc = "answer", !.reply = reply])
    /\ Step("chat_with_agent_call", slot)
    /\ result' = NoResult
    /\ UNCHANGED <<conversations, nextConvId, messages, nextMsgId>>
    /\ UnchangedTodos

\* A loop that runs the tool calls of a reply from the last to the first.
chat_with_agent_tool_reversed(slot) ==
    /\ requests[slot].pc = "tools" /\ requests[slot].endpoint = "chat"
    /\ LET r    == requests[slot]
           call == r.pending[Len(r.pending)]
           out  == execute_tool(call.name, call.arguments, Db, r.user)
       IN  IF call.payload = "malformed"
           THEN /\ SetRequest(slot, [r EXCEPT !.pc = "failed",
                                              !.error = "JSONDecodeError"])
                /\ result' = Raise("JSONDecodeError")
                /\ lastOp' = [NoOp EXCEPT !.op = "json.loads", !.user = r.user,
                                          !.slot = slot]
                /\ UnchangedTodos
           ELSE /\ Commit(out)
                /\ lastOp' = [NoOp EXCEPT !.op = "execute_tool", !.user = r.user,
                                          !.tool = call.name,
                                          !.arguments = call.arguments,
                                          !.slot = slot]
                /\ IF out.result.raised # "none"
                   THEN SetRequest(slot, [r EXCEPT !.pc = "failed",
                                                   !.error = out.result.raised])
                   ELSE SetRequest(slot, [r EXCEPT
                          !.pc = IF Len(r.pending) = 1 THEN "model" ELSE "tools",
                          !.pending = SubSeq(r.pending, 1, Len(r.pending) - 1),
                          !.tool_calls_made = Append(r.tool_calls_made,
                             [tool |-> call.name, arguments |-> call.arguments,
                              result |-> out.result]),
                          !.context = Append(r.context,
                             [role |-> "tool", tool_call |-> call,
                              result |-> out.result])])
    /\ UNCHANGED <<conversations, nextConvId, messages, nextMsgId>>

\* One iteration of `for tool_call in assistant_message.tool_calls`.
chat_with_agent_tool(slot) ==
    /\ requests[slot].pc = "tools" /\ requests[slot].endpoint = "chat"
    /\ LET r    == requests[slot]
           call == Head(r.pending)
           out  == execute_tool(call.name, call.arguments, Db, r.user)
       IN  IF call.payload = "malformed"
           THEN /\ SetRequest(slot, [r EXCEPT !.pc = "failed",
                                              !.error = "JSONDecodeError"])
                /\ result' = Raise("JSONDecodeError")
                /\ lastOp' = [NoOp EXCEPT !.op = "json.loads", !.user = r.user,
                                          !.slot = slot]
                /\ UnchangedTodos
           ELSE /\ Commit(out)
                /\ lastOp' = [NoOp EXCEPT !.op = "execute_tool", !.user = r.user,
                                          !.tool = call.name,
                                          !.arguments = call.arguments,
                                          !.slot = slot]
                /\ IF out.result.raised # "none"
                   THEN SetRequest(slot, [r EXCEPT !.pc = "failed",
                                                   !.error = out.result.raised])
                   ELSE SetRequest(slot, [r EXCEPT
                          !.pc = IF Len(r.pending) = 1 THEN "model" ELSE "tools",
                          !.pending = Tail(r.pending),
                          !.tool_calls_made = Append(r.tool_calls_made,
                             [tool |-> call.name, arguments |-> call.arguments,
                              result |-> out.result]),
                          !.context = Append(r.context,
                             [role |-> "tool", tool_call |-> call,
                              result |-> out.result])])
    /\ UNCHANGED <<conversations, nextConvId, messages, nextMsgId>>

\* An except clause that rolls the todo store back to the empty store.
chat_failed_rollback(slot) ==
    /\ requests[slot].pc = "failed" /\ requests[slot].endpoint = "chat"
    /\ LET r == requests[slot]
       IN  IF r.conv \notin DOMAIN conversations
           THEN /\ SetRequest(slot, [r EXCEPT !.pc = "done", !.status = 500,
                                              !.error = "IntegrityError"])
                /\ result' = ServerError
                /\ UNCHANGED <<messages, nextMsgId>>
           ELSE /\ messages' = Append(messages,
                     Message(nextMsgId, r.conv, "assistant",
                             <<"I'm sorry, I encountered an error: ", r.error,
                               ". Please try again.">>, <<>>))
                /\ nextMsgId' = nextMsgId + 1
                /\ SetRequest(slot, [r EXCEPT
                                       !.pc = "done", !.status = 500,
                                       !.detail = <<"AI service error: ", r.error>>])
                /\ result' = [NoResult EXCEPT !.status = 500,
                                              !.detail = "AI service error"]
    /\ Step("chat_failed", slot)
    /\ UNCHANGED <<conversations, nextConvId>>
    /\ todos' = <<>> /\ clock' = 0 /\ nextTodoId' = 1

\* except Exception as e: save the apology, raise HTTPException(500).
chat_failed(slot) ==
    /\ requests[slot].pc = "failed" /\ requests[slot].endpoint = "chat"
    /\ LET r == requests[slot]
       IN  IF r.conv \notin DOMAIN conversations
           THEN /\ SetRequest(slot, [r EXCEPT !.pc = "done", !.status = 500,
                                              !.error = "IntegrityError"])
                /\ result' = ServerError
                /\ UNCHANGED <<messages, nextMsgId>>
           ELSE /\ messages' = Append(messages,
                     Message(nextMsgId, r.conv, "assistant",
                             <<"I'm sorry, I encountered an error: ", r.error,
                               ". Please try again.">>, <<>>))
                /\ nextMsgId' = nextMsgId + 1
                /\ SetRequest(slot, [r EXCEPT
                                       !.pc = "done", !.status = 500,
                                       !.detail = <<"AI service error: ", r.error>>])
                /\ result' = [NoResult EXCEPT !.status = 500,
                                              !.detail = "AI service error"]
    /\ Step("chat_failed", slot)
    /\ UNCHANGED <<conversations, nextConvId>>
    /\ UnchangedTodos

\* return assistant_message.content or "I'm sorry, I couldn't process that request."
FinalText(content) ==
    IF Truthy(content) THEN content ELSE Fallback

\* A handler that also stores a message of role "tool" when tools have run.
chat_answer_storing_tools(slot) ==
    /\ requests[slot].pc = "answer" /\ requests[slot].endpoint = "chat"
    /\ LET r == requests[slot]
       IN  IF r.conv \notin DOMAIN conversations
           THEN /\ SetRequest(slot, [r EXCEPT !.pc = "done", !.status = 500,
                                              !.error = "IntegrityError"])
                /\ result' = ServerError
                /\ UNCHANGED <<messages, nextMsgId, conversations>>
           ELSE /\ messages' =
                     (IF r.tool_calls_made = <<>> THEN messages
                      ELSE Append(messages,
                                  Message(nextMsgId + 1, r.conv, "tool", <<"tool">>, <<>>)))
                     \o <<Message(nextMsgId, r.conv, "assistant",
                                  FinalText(r.reply.content), r.tool_calls_made)>>
                /\ nextMsgId' = nextMsgId + 1
                /\ conversations' = TitleAfterTurn(conversations, r)
                /\ SetRequest(slot, [r EXCEPT !.pc = "done", !.status = 200,
                                              !.detail = FinalText(r.reply.content)])
                /\ result' = [NoResult EXCEPT
                                !.status = 200,
                                !.messages = <<messages'[Len(messages')]>>]
    /\ Step("chat_answer", slot)
    /\ UNCHANGED nextConvId
    /\ UnchangedTodos

\* Save the assistant message, derive the title on the first exchange, commit.
chat_answer(slot) ==
    /\ requests[slot].pc = "answer" /\ requests[slot].endpoint = "chat"
    /\ LET r == requests[slot]
       IN  IF r.conv \notin DOMAIN conversations
           THEN /\ SetRequest(slot, [r EXCEPT !.pc = "done", !.status = 500,
                                              !.error = "IntegrityError"])
                /\ result' = ServerError
                /\ UNCHANGED <<messages, nextMsgId, conversations>>
           ELSE /\ messages' = Append(messages,
                     Message(nextMsgId, r.conv, "assistant",
                             FinalText(r.reply.content), r.tool_calls_made))
                /\ nextMsgId' = nextMsgId + 1
                /\ conversations' = TitleAfterTurn(conversations, r)
                /\ SetRequest(slot, [r EXCEPT !.pc = "done", !.status = 200,
                                              !.detail = FinalText(r.reply.content)])
                /\ result' = [NoResult EXCEPT
                                !.status = 200,
                                !.messages = <<messages'[Len(messages')]>>]
    /\ Step("chat_answer", slot)
    /\ UNCHANGED nextConvId
    /\ UnchangedTodos

----------------------------------------------------------------------------
(* POST /api/chat/stream (chat_stream, generate) and chat_with_agent_stream.*)

Event(type, data) ==
    [type |-> type, data |-> data]

\* A generator that lets the exception escape: the response just ends.
ErrorEscapes(r, e) ==
    [r EXCEPT !.pc = "done", !.error = e]

\* except Exception as e: yield {"error": str(e)}
ErrorEvent(r, e) ==
    [r EXCEPT !.pc = "done", !.error = e,
              !.events = Append(r.events, Event("error", <<e>>))]

RECURSIVE Concat(_)
Concat(chunks) ==
    IF chunks = <<>> THEN <<>> ELSE Head(chunks) \o Concat(Tail(chunks))

chat_stream_begin(slot, user_id, conversation_id, message) ==
    /\ requests[slot].pc \in {"idle", "done"}
    /\ RoomForTurn
    /\ LET r == [IdleRequest EXCEPT !.endpoint = "stream", !.user = user_id,
                                    !.message = message]
       IN  IF conversation_id # NoId
           THEN /\ UNCHANGED <<conversations, nextConvId>>
                /\ IF ConversationOf(user_id, conversation_id) = {}
                   THEN /\ SetRequest(slot, [r EXCEPT !.pc = "done", !.status = 404])
                        /\ result' = ConversationNotFound
                   ELSE /\ SetRequest(slot, [r EXCEPT !.pc = "history",
                                                      !.conv = conversation_id])
                        /\ result' = NoResult
           ELSE /\ nextConvId <= MaxConvs
                /\ conversations' =
                     (nextConvId :> Conversation(nextConvId, user_id)) @@ conversations
                /\ nextConvId' = nextConvId + 1
                /\ SetRequest(slot, [r EXCEPT !.pc = "history", !.conv = nextConvId])
                /\ result' = NoResult
    /\ lastOp' = [NoOp EXCEPT !.op = "chat_stream_begin", !.user = user_id,
                              !.slot = slot, !.id = conversation_id]
    /\ UNCHANGED <<messages, nextMsgId>>
    /\ UnchangedTodos

chat_stream_history(slot) ==
    /\ requests[slot].pc = "history" /\ requests[slot].endpoint = "stream"
    /\ SetRequest(slot, [requests[slot] EXCEPT
                           !.pc = "save_user",
                           !.history = History(requests[slot].conv)])
    /\ Step("chat_stream_history", slot)
    /\ result' = NoResult
    /\ UNCHANGED <<conversations, nextConvId, messages, nextMsgId>>
    /\ UnchangedTodos

\* Save the user message, then return the StreamingResponse (status 200).
chat_stream_save_user(slot) ==
    /\ requests[slot].pc = "save_user" /\ requests[slot].endpoint = "stream"
    /\ LET r == requests[slot]
       IN  IF r.conv \notin DOMAIN conversations
           THEN /\ SetRequest(slot, [r EXCEPT !.pc = "done", !.status = 500,
                                              !.error = "IntegrityError"])
                /\ result' = ServerError
                /\ UNCHANGED <<messages, nextMsgId>>
           ELSE /\ messages' = Append(messages,
                                      Message(nextMsgId, r.conv, "user", r.message, <<>>))
                /\ nextMsgId' = nextMsgId + 1
                /\ SetRequest(slot, [r EXCEPT
                                       !.pc = "model",
                                       !.status = 200,
                                       !.user_msg = nextMsgId,
                                       !.context = BuildMessages(r.history, r.message)])
                /\ result' = Http(200)
    /\ Step("chat_stream_save_user", slot)
    /\ UNCHANGED <<conversations, nextConvId>>
    /\ UnchangedTodos

\* One non-streaming model call of chat_with_agent_stream and its loop test.
chat_with_agent_stream_call(slot, reply) ==
    /\ requests[slot].pc = "model" /\ requests[slot].endpoint = "stream"
    /\ LET r == [requests[slot] EXCEPT !.calls = @ + 1]
       IN  IF reply.fail # ""
           THEN SetRequest(slot, ErrorEvent(r, reply.fail))
           ELSE IF reply.tool_calls # <<>>
                THEN /\ r.rounds < MaxRounds
                     /\ SetRequest(slot, [r EXCEPT
                          !.pc = "tools",
                          !.reply = reply,
                          !.rounds = r.rounds + 1,
                          !.pending = reply.tool_calls,
                          !.context = Append(r.context,
                             [role |-> "assistant",
                              content |-> IF Truthy(reply.content)
                                          THEN reply.content ELSE <<>>,
                              tool_calls |-> reply.tool_calls])])
                ELSE SetRequest(slot, [r EXCEPT !.pc = "answer", !.reply = reply])
    /\ Step("chat_with_agent_stream_call", slot)
    /\ result' = NoResult
    /\ UNCHANGED <<conversations, nextConvId, messages, nextMsgId>>
    /\ UnchangedTodos

\* A streaming loop that runs every tool call twice.
chat_with_agent_stream_tool_twice(slot) ==
    /\ requests[slot].pc = "tools" /\ requests[slot].endpoint = "stream"
    /\ LET r     == requests[slot]
           call  == Head(r.pending)
           first == execute_tool(call.name, call.arguments, Db, r.user)
           out   == execute_tool(call.name, call.arguments, first.db, r.user)
       IN  IF call.payload = "malformed"
           THEN /\ SetRequest(slot, ErrorEvent(r, "JSONDecodeError"))
                /\ result' = Raise("JSONDecodeError")
                /\ lastOp' = [NoOp EXCEPT !.op = "json.loads", !.user = r.user,
                                          !.slot = slot]
                /\ UnchangedTodos
           ELSE /\ Commit(out)
                /\ lastOp' = [NoOp EXCEPT !.op = "execute_tool", !.user = r.user,
                                          !.tool = call.name,
                                          !.arguments = call.arguments,
                                          !.slot = slot]
                /\ IF out.result.raised # "none"
                   THEN SetRequest(slot, ErrorEvent(r, out.result.raised))
                   ELSE SetRequest(slot, [r EXCEPT
                          !.pc = IF Len(r.pending) = 1 THEN "model" ELSE "tools",
                          !.pending = Tail(r.pending),
                          !.context = Append(r.context,
                             [role |-> "tool", tool_call |-> call,
                              result |-> out.result])])
    /\ UNCHANGED <<conversations, nextConvId, messages, nextMsgId>>

\* A streaming loop that skips a tool call whose arguments do not parse.
chat_with_agent_stream_tool_skipping(slot) ==
    /\ requests[slot].pc = "tools" /\ requests[slot].endpoint = "stream"
    /\ LET r    == requests[slot]
           call == Head(r.pending)
           out  == execute_tool(call.name, call.arguments, Db, r.user)
       IN  IF call.payload = "malformed"
           THEN /\ SetRequest(slot, [r EXCEPT
                       !.pc = IF Len(r.pending) = 1 THEN "model" ELSE "tools",
                       !.pending = Tail(r.pending)])
                /\ result' = Raise("JSONDecodeError")
                /\ lastOp' = [NoOp EXCEPT !.op = "json.loads", !.user = r.user,
                                          !.slot = slot]
                /\ UnchangedTodos
           ELSE /\ Commit(out)
                /\ lastOp' = [NoOp EXCEPT !.op = "execute_tool", !.user = r.user,
                                          !.tool = call.name,
                                          !.arguments = call.arguments,
                                          !.slot = slot]
                /\ IF out.result.raised # "none"
                   THEN SetRequest(slot, ErrorEvent(r, out.result.raised))
                   ELSE SetRequest(slot, [r EXCEPT
                          !.pc = IF Len(r.pending) = 1 THEN "model" ELSE "tools",
                          !.pending = Tail(r.pending),
                          !.context = Append(r.context,
                             [role |-> "tool", tool_call |-> call,
                              result |-> out.result])])
    /\ UNCHANGED <<conversations, nextConvId, messages, nextMsgId>>

chat_with_agent_stream_tool(slot) ==
    /\ requests[slot].pc = "tools" /\ requests[slot].endpoint = "stream"
    /\ LET r    == requests[slot]
           call == Head(r.pending)
           out  == execute_tool(call.name, call.arguments, Db, r.user)
       IN  IF call.payload = "malformed"
           THEN /\ SetRequest(slot, ErrorEvent(r, "JSONDecodeError"))
                /\ result' = Raise("JSONDecodeError")
                /\ lastOp' = [NoOp EXCEPT !.op = "json.loads", !.user = r.user,
                                          !.slot = slot]
                /\ UnchangedTodos
           ELSE /\ Commit(out)
                /\ lastOp' = [NoOp EXCEPT !.op = "execute_tool", !.user = r.user,
                                          !.tool = call.name,
                                          !.arguments = call.arguments,
                                          !.slot = slot]
                /\ IF out.result.raised # "none"
                   THEN SetRequest(slot, ErrorEvent(r, out.result.raised))
                   ELSE SetRequest(slot, [r EXCEPT
                          !.pc = IF Len(r.pending) = 1 THEN "model" ELSE "tools",
                          !.pending = Tail(r.pending),
                          !.context = Append(r.context,
                             [role |-> "tool", tool_call |-> call,
                              result |-> out.result])])
    /\ UNCHANGED <<conversations, nextConvId, messages, nextMsgId>>

ContentEvents(chunks) ==
    [k \in 1..Len(chunks) |-> Event("content", chunks[k])]

\* The streaming call made after the loop, and the yields that follow it:
\* the content of the last reply if it has any, else the non-empty deltas.
chat_with_agent_stream_final(slot, stream) ==
    /\ requests[slot].pc = "answer" /\ requests[slot].endpoint = "stream"
    /\ LET r      == [requests[slot] EXCEPT !.calls = @ + 1]
           chunks == IF Truthy(r.reply.content)
                     THEN <<r.reply.content>>
                     ELSE SelectSeq(stream.deltas, Truthy)
           sent   == [r EXCEPT !.chunks = chunks,
                               !.events = r.events \o ContentEvents(chunks)]
       IN  IF stream.fail # ""
           THEN SetRequest(slot, ErrorEvent(r, stream.fail))
           ELSE IF ~Truthy(r.reply.content) /\ stream.breaks # ""
                THEN SetRequest(slot, ErrorEvent(sent, stream.breaks))
                ELSE SetRequest(slot, [sent EXCEPT !.pc = "persist"])
    /\ Step("chat_with_agent_stream_final", slot)
    /\ result' = NoResult
    /\ UNCHANGED <<conversations, nextConvId, messages, nextMsgId>>
    /\ UnchangedTodos

\* generate() saving the last chunk in place of the accumulated response.
generate_persist_last_chunk(slot) ==
    /\ requests[slot].pc = "persist" /\ requests[slot].endpoint = "stream"
    /\ LET r == requests[slot]
       IN  IF r.conv \notin DOMAIN conversations
           THEN /\ SetRequest(slot, ErrorEvent(r, "IntegrityError"))
                /\ UNCHANGED <<messages, nextMsgId, conversations>>
           ELSE /\ messages' = Append(messages,
                     Message(nextMsgId, r.conv, "assistant",
                             IF r.chunks = <<>> THEN <<>> ELSE r.chunks[Len(r.chunks)],
                             <<>>))
                /\ nextMsgId' = nextMsgId + 1
                /\ conversations' = TitleAfterTurn(conversations, r)
                /\ SetRequest(slot, [r EXCEPT
                                       !.pc = "done",
                                       !.events = Append(r.events, Event("done", <<>>))])
    /\ Step("generate_persist", slot)
    /\ result' = NoResult
    /\ UNCHANGED nextConvId
    /\ UnchangedTodos

\* generate(), after the stream is exhausted: save the assistant message,
\* derive the title on the first exchange, commit, yield done.
generate_persist(slot) ==
    /\ requests[slot].pc = "persist" /\ requests[slot].endpoint = "stream"
    /\ LET r == requests[slot]
       IN  IF r.conv \notin DOMAIN conversations
           THEN /\ SetRequest(slot, ErrorEvent(r, "IntegrityError"))
                /\ UNCHANGED <<messages, nextMsgId, conversations>>
           ELSE /\ messages' = Append(messages,
                     Message(nextMsgId, r.conv, "assistant", Concat(r.chunks), <<>>))
                /\ nextMsgId' = nextMsgId + 1
                /\ conversations' = TitleAfterTurn(conversations, r)
                /\ SetRequest(slot, [r EXCEPT
                                       !.pc = "done",
                                       !.events = Append(r.events, Event("done", <<>>))])
    /\ Step("generate_persist", slot)
    /\ result' = NoResult
    /\ UNCHANGED nextConvId
    /\ UnchangedTodos

----------------------------------------------------------------------------
(* The whole application: the chat endpoints with the tools they run, the  *)
(* conversation endpoints and the todo endpoints.                          *)

NextChat ==
    \/ \E u \in Users : create_conversation(u)
    \/ \E u \in Users, c \in ConvIds \ {NoId} : delete_conversation(u, c)
    \/ \E s \in Slots, u \in Users, c \in ConvIds, m \in UserMessages :
         chat_begin(s, u, c, m)
    \/ \E s \in Slots : chat_history(s)
    \/ \E s \in Slots : chat_save_user(s)
    \/ \E s \in Slots, reply \in ModelReplies : chat_with_agent_call(s, reply)
    \/ \E s \in Slots : chat_with_agent_tool(s)
    \/ \E s \in Slots : chat_failed(s)
    \/ \E s \in Slots : chat_answer(s)
    \/ \E s \in Slots, u \in Users, c \in ConvIds, m \in UserMessages :
         chat_stream_begin(s, u, c, m)
    \/ \E s \in Slots : chat_stream_history(s)
    \/ \E s \in Slots : chat_stream_save_user(s)
    \/ \E s \in Slots, reply \in ModelReplies : chat_with_agent_stream_call(s, reply)
    \/ \E s \in Slots : chat_with_agent_stream_tool(s)
    \/ \E s \in Slots, stream \in Streams : chat_with_agent_stream_final(s, stream)
    \/ \E s \in Slots : generate_persist(s)

ChatSpec ==
    Init /\ [][NextChat]_vars

----------------------------------------------------------------------------
(* The endpoints that take the id of a todo or of a conversation, with     *)
(* POST /api/todos to fill the store; of the chat endpoints, the lookup    *)
(* of the conversation only.                                               *)

NextById ==
    \/ \E u \in Users : CreateTodo(u, <<"A", "1">>)
    \/ \E u \in Users, i \in TodoIds : GetTodo(u, i)
    \/ \E u \in Users, i \in TodoIds, p \in UpdateInputs : UpdateTodo(u, i, p[1], p[2])
    \/ \E u \in Users, i \in TodoIds : DeleteTodo(u, i)
    \/ \E u \in Users, c \in ConvIds \ {NoId} : get_conversation(u, c)
    \/ \E u \in Users, c \in ConvIds \ {NoId} : delete_conversation(u, c)
    \/ \E s \in Slots, u \in Users, c \in ConvIds : chat_begin(s, u, c, Hi)
    \/ \E s \in Slots, u \in Users, c \in ConvIds : chat_stream_begin(s, u, c, Hi)

ByIdSpec ==
    InitStore /\ [][NextById]_vars

----------------------------------------------------------------------------
(* The beginning of a chat turn, up to its first model call, on a          *)
(* conversation that already holds up to MaxHistory messages.              *)

\* n messages of conversation 1, oldest first, by turns of the user and of
\* the assistant; the k-th has a content of k characters.  Their ids lie
\* below the ids the model hands out.
SeededMessages(n) ==
    [k \in 1..n |->
       Message(k - n - 1, 1, IF k % 2 = 1 THEN "user" ELSE "assistant",
               [i \in 1..k |-> "x"], <<>>)]

InitHistory ==
    /\ todos = <<>>
    /\ clock = 0
    /\ nextTodoId = 1
    /\ \E n \in 0..MaxHistory :
          /\ messages = SeededMessages(n)
          /\ conversations =
                (1 :> [Conversation(1, "A") EXCEPT
                         !.title = IF n = 0 THEN NewChat ELSE <<"x">>])
    /\ nextConvId = 2
    /\ nextMsgId = 1
    /\ requests = [s \in Slots |-> IdleRequest]
    /\ lastOp = NoOp
    /\ result = NoResult

NextHistory ==
    \/ \E s \in Slots, u \in Users : chat_begin(s, u, 1, Hi)
    \/ \E s \in Slots : chat_history(s)
    \/ \E s \in Slots : chat_save_user(s)
    \/ \E s \in Slots, reply \in ModelReplies : chat_with_agent_call(s, reply)
    \/ \E s \in Slots, u \in Users : chat_stream_begin(s, u, 1, Hi)
    \/ \E s \in Slots : chat_stream_history(s)
    \/ \E s \in Slots : chat_stream_save_user(s)
    \/ \E s \in Slots, reply \in ModelReplies : chat_with_agent_stream_call(s, reply)

HistorySpec ==
    InitHistory /\ [][NextHistory]_vars

----------------------------------------------------------------------------
(* Properties.  A step is identified by lastOp', the operation it ran;     *)
(* unprimed variables are the state the operation found.                   *)

\* The text occurs in the title, compared case-insensitively.
ContainsText(title, text) ==
    \E i \in 0..(Len(title) - Len(text)) :
       \A k \in 1..Len(text) : Lower(title[i + k]) = Lower(text[k])

\* The user's todos whose title contains the text.
TitleHits(rows, user_id, text) ==
    {i \in DOMAIN rows : rows[i].user_id = user_id /\ ContainsText(rows[i].title, text)}

\* The user's todo whose id is written by the text.
OwnIdHits(rows, user_id, text) ==
    {i \in DOMAIN rows : rows[i].user_id = user_id /\ IdStr(i) = text}

\* The todos of other users whose id is written by the text.
ForeignIdHits(rows, user_id, text) ==
    {i \in DOMAIN rows : rows[i].user_id # user_id /\ IdStr(i) = text}

\* The todo the resolve algorithm selects, if it selects one.
Resolved(rows, user_id, text) ==
    IF OwnIdHits(rows, user_id, text) # {} THEN OwnIdHits(rows, user_id, text)
    ELSE IF Cardinality(TitleHits(rows, user_id, text)) = 1
         THEN TitleHits(rows, user_id, text)
         ELSE {}

\* The step ran a mutating tool with a text identifier and every required
\* argument present.
MutatingToolStep ==
    /\ lastOp'.op = "execute_tool"
    /\ lastOp'.tool \in MutatingTools
    /\ IsStr(lastOp'.arguments["todo_identifier"])
    /\ lastOp'.tool = "update_todo" => lastOp'.arguments["new_title"] # JMissing

StoreUnchanged ==
    todos' = todos /\ clock' = clock /\ nextTodoId' = nextTodoId

OthersTodosKept(user_id) ==
    \A i \in DOMAIN todos :
       todos[i].user_id # user_id => (i \in DOMAIN todos' /\ todos'[i] = todos[i])

MessagesIn(msgs, conversation_id) ==
    SelectSeq(msgs, LAMBDA m : m.conversation_id = conversation_id)

OthersConversationsKept(user_id) ==
    \A c \in DOMAIN conversations :
       conversations[c].user_id # user_id =>
          /\ c \in DOMAIN conversations'
          /\ conversations'[c] = conversations[c]
          /\ MessagesIn(messages', c) = MessagesIn(messages, c)

\* Ids of the todos a result shows.
ShownTodoIds(res) ==
    {res.todo[k].id : k \in 1..Len(res.todo)}
    \cup {res.todos[k].id : k \in 1..Len(res.todos)}
    \cup {m.id : m \in res.matches}

OnlyOwnShown(user_id) ==
    /\ \A t \in ShownTodoIds(result') :
          \E i \in DOMAIN todos \cup DOMAIN todos' :
             /\ IdStr(i) = t
             /\ IF i \in DOMAIN todos' THEN todos'[i].user_id = user_id
                ELSE todos[i].user_id = user_id
    /\ \A c \in result'.conversations : c.user_id = user_id
    /\ \A k \in 1..Len(result'.messages) :
          \E c \in DOMAIN conversations' :
             /\ c = result'.messages[k].conversation_id
             /\ conversations'[c].user_id = user_id

\* C1: owner isolation.  Whatever a user does, with whatever identifier, the
\* todos, conversations and messages of every other user stay as they were,
\* and the result shows only todos, conversations and messages of that user.
OwnerIsolation ==
    [][\A u \in Users :
         lastOp'.user = u =>
            /\ OthersTodosKept(u)
            /\ OthersConversationsKept(u)
            /\ OnlyOwnShown(u)]_vars

\* A foreign user has asked to delete the seeded conversation, which is
\* still there with its messages, while the owner of it has a todo.
OwnerIsolationWitness ==
    /\ lastOp.op = "delete_conversation"
    /\ lastOp.user = "A"
    /\ lastOp.id \in DOMAIN conversations
    /\ conversations[lastOp.id].user_id = "B"
    /\ result.status = 404
    /\ Len(MessagesOf(lastOp.id)) = 2
    /\ \E i \in DOMAIN todos : todos[i].user_id = "B"

\* C2 as claimed: a mutating tool called with the id of another user's todo
\* answers not found and changes nothing, whatever the caller owns.
ForeignIdNeverMatches ==
    [][(MutatingToolStep
        /\ ForeignIdHits(todos, lastOp'.user, lastOp'.arguments["todo_identifier"]) # {})
       => /\ StoreUnchanged
          /\ result' = NotFoundEnvelope(lastOp'.arguments["todo_identifier"])]_vars

\* C2 as amended: a mutating tool called with the id of another user's todo
\* never selects, shows or changes a todo of another user; it answers not
\* found and changes nothing when no title of the caller's todos contains
\* the identifier text.
ForeignIdNeverMatchesForeign ==
    [][(MutatingToolStep
        /\ ForeignIdHits(todos, lastOp'.user, lastOp'.arguments["todo_identifier"]) # {})
       => /\ OthersTodosKept(lastOp'.user)
          /\ OnlyOwnShown(lastOp'.user)
          /\ TitleHits(todos, lastOp'.user, lastOp'.arguments["todo_identifier"]) = {}
             => /\ StoreUnchanged
                /\ result' = NotFoundEnvelope(lastOp'.arguments["todo_identifier"])]_vars

\* A mutating tool has been called with the id of a todo of another user,
\* which is still in the store, and has answered not found.
ForeignIdWitness ==
    /\ lastOp.op = "execute_tool"
    /\ lastOp.tool \in MutatingTools
    /\ \E i \in DOMAIN todos :
          /\ IdStr(i) = lastOp.arguments["todo_identifier"]
          /\ todos[i].user_id # lastOp.user
    /\ result = NotFoundEnvelope(lastOp.arguments["todo_identifier"])

\* C3: an identifier that is not the id of one of the caller's todos and
\* occurs in two or more of the caller's titles changes nothing and is
\* answered success=false with exactly the matching todos as matches.
AmbiguousNeverMutates ==
    [][(MutatingToolStep
        /\ OwnIdHits(todos, lastOp'.user, lastOp'.arguments["todo_identifier"]) = {}
        /\ Cardinality(TitleHits(todos, lastOp'.user,
                                 lastOp'.arguments["todo_identifier"])) >= 2)
       => /\ StoreUnchanged
          /\ result'.raised = "none"
          /\ result'.success = FALSE
          /\ result'.matches =
               {[id |-> IdStr(i), title |-> todos[i].title] :
                  i \in TitleHits(todos, lastOp'.user,
                                  lastOp'.arguments["todo_identifier"])}]_vars

\* A mutating tool has answered with two candidates.
AmbiguousWitness ==
    /\ lastOp.op = "execute_tool"
    /\ lastOp.tool \in MutatingTools
    /\ result.success = FALSE
    /\ Cardinality(result.matches) = 2
    /\ Cardinality(TitleHits(todos, lastOp.user, lastOp.arguments["todo_identifier"])) = 2

\* C4: complete_todo on a completed todo, and uncomplete_todo on an
\* incomplete one, succeed and leave the store, the updated stamp included,
\* as it was.
IdempotentCompletion ==
    [][\A i \in Resolved(todos, lastOp'.user, lastOp'.arguments["todo_identifier"]) :
         (/\ MutatingToolStep
          /\ \/ lastOp'.tool = "complete_todo" /\ todos[i].completed
             \/ lastOp'.tool = "uncomplete_todo" /\ ~todos[i].completed)
         => /\ StoreUnchanged
            /\ result'.raised = "none"
            /\ result'.success = TRUE]_vars

\* complete_todo has been called on a todo that was completed before.
IdempotentCompletionWitness ==
    /\ lastOp.op = "execute_tool"
    /\ lastOp.tool = "complete_todo"
    /\ result.success = TRUE
    /\ result.message[1] = "is already completed"
    /\ \E i \in DOMAIN todos : todos[i].completed /\ todos[i].updated_at = todos[i].created_at + 1

\* C5 as claimed: execute_tool never raises, whatever the argument bag.
ExecuteToolNeverRaises ==
    lastOp.op = "execute_tool" => result.raised = "none"

\* C6: an unknown tool name is answered with the envelope
\* {success: false, message: "Unknown tool: <name>"}, nothing is raised and
\* the store is unchanged, whatever the argument bag.
UnknownToolEnvelope ==
    [][(lastOp'.op = "execute_tool" /\ lastOp'.tool \notin ToolNames)
       => /\ StoreUnchanged
          /\ result'.raised = "none"
          /\ result'.success = FALSE
          /\ result'.message = <<"Unknown tool: ", <<lastOp'.tool>>>>
          /\ ShownTodoIds(result') = {}]_vars

\* An unknown tool has been called with an argument, on a store with todos.
UnknownToolWitness ==
    /\ lastOp.op = "execute_tool"
    /\ lastOp.tool = "bogus"
    /\ lastOp.arguments # NoArgs
    /\ DOMAIN todos # {}
    /\ result.success = FALSE

\* The step created a todo from a text title: the create_todo tool or
\* POST /api/todos.
CreateStep ==
    /\ \/ lastOp'.op = "execute_tool" /\ lastOp'.tool = "create_todo"
       \/ lastOp'.op = "create_todo"
    /\ IsStr(lastOp'.arguments["title"])

\* C7 as claimed: create trims the title; an empty trimmed title is refused
\* and no row is written; otherwise exactly one todo of the caller is added,
\* with the trimmed title and completed = false.
CreateValidatesTitle ==
    [][CreateStep =>
         IF Strip(lastOp'.arguments["title"]) = <<>>
         THEN /\ StoreUnchanged
              /\ result'.raised = "none"
              /\ result'.success = FALSE
              /\ result'.status \in {0, 400, 422}
         ELSE \E i \in DOMAIN todos' \ DOMAIN todos :
                 /\ DOMAIN todos' = DOMAIN todos \cup {i}
                 /\ \A j \in DOMAIN todos : todos'[j] = todos[j]
                 /\ todos'[i].title = Strip(lastOp'.arguments["title"])
                 /\ todos'[i].user_id = lastOp'.user
                 /\ todos'[i].completed = FALSE]_vars

\* The request has finished a turn whose user message was saved in a
\* conversation that still exists.
FinishedTurn(r) ==
    /\ r.pc = "done"
    /\ r.user_msg # NoId
    /\ r.conv \in DOMAIN conversations

\* C8 as claimed: once a turn has finished, with or without a failure, on
\* either endpoint, the user message of the turn is followed in its
\* conversation by an assistant message.
TurnLeavesAssistantMessage ==
    \A s \in Slots :
       FinishedTurn(requests[s]) =>
          \E k, j \in 1..Len(messages) :
             /\ k < j
             /\ messages[k].id = requests[s].user_msg
             /\ messages[j].conversation_id = requests[s].conv
             /\ messages[j].role = "assistant"

\* C9 as claimed: when chat_with_agent_stream has produced all its
\* fragments, their concatenation is the text chat_with_agent returns for
\* the same last reply of the model, a reply without content included.
StreamEqualsBuffered ==
    \A s \in Slots :
       (requests[s].endpoint = "stream" /\ requests[s].pc = "persist")
       => Concat(requests[s].chunks) = FinalText(requests[s].reply.content)

\* C10 as claimed: a conversation that has received a turn, finished with or
\* without a failure, carries the title derived from its first user message.
TitleDerivedOnce ==
    \A s \in Slots :
       FinishedTurn(requests[s]) =>
          conversations[requests[s].conv].title =
             DeriveTitle(MessagesOf(requests[s].conv)[1].content)

\* The tool results a turn has appended to the messages it sends the model.
ToolEntries(context) ==
    SelectSeq(context, LAMBDA m : m.role = "tool")

\* The database after the step.
DbAfter ==
    [todos |-> todos', clock |-> clock', nextTodoId |-> nextTodoId']

\* C11: in a chat turn, buffered or streamed, the todo store changes only
\* when a tool call is executed; the call executed is the first one still
\* pending, it is executed once (the store becomes what execute_tool makes
\* of the store before) and leaves the pending list; all the calls of a
\* reply become pending, and the turn asks the model again only when none
\* is left.
ToolCallsRunOnce ==
    [][\A s \in Slots :
         LET r    == requests[s]
             r2   == requests'[s]
             call == Head(r.pending)
         IN  /\ DbAfter # Db => lastOp'.op = "execute_tool"
             /\ (lastOp'.op = "execute_tool" /\ lastOp'.slot = s) =>
                   /\ r.pc = "tools" /\ r.pending # <<>>
                   /\ lastOp'.tool = call.name /\ lastOp'.arguments = call.arguments
                   /\ DbAfter = execute_tool(call.name, call.arguments, Db, r.user).db
                   /\ result' = execute_tool(call.name, call.arguments, Db, r.user).result
                   /\ result'.raised = "none" =>
                         /\ r2.pending = Tail(r.pending)
                         /\ ToolEntries(r2.context) =
                               Append(ToolEntries(r.context),
                                      [role |-> "tool", tool_call |-> call,
                                       result |-> result'])
             /\ (r.pc = "model" /\ r2.pc = "tools") =>
                   r2.pending = r2.reply.tool_calls /\ r2.pending # <<>>
             /\ (r.pc = "tools" /\ r2.pc = "tools" /\ r2 # r) =>
                   (lastOp'.op = "execute_tool" /\ r2.pending # <<>>)
             /\ (r.pc = "tools" /\ r2.pc = "model") =>
                   (lastOp'.op = "execute_tool" /\ r2.pending = <<>>)
             /\ (r.pc = "tools" /\ r2.pc \notin {"tools", "model"}) =>
                   (result'.raised # "none" /\ r2.error = result'.raised)]_vars

\* A streamed turn has run the two tool calls of a reply, a create and a
\* complete, and is about to ask the model again.
ToolCallsRunOnceWitness ==
    \E s \in Slots :
       /\ requests[s].endpoint = "stream"
       /\ requests[s].pc = "model"
       /\ Len(ToolEntries(requests[s].context)) = 2
       /\ requests[s].pending = <<>>
       /\ \E i \in DOMAIN todos : todos[i].completed

IsTerminal(event) ==
    event.type \in {"done", "error"}

\* C12: the events of a /api/chat/stream response are content events
\* followed, once the response has ended, by exactly one terminal event, done
\* or error, which is the last event; a turn that fails after the response
\* has begun (status 200) ends with the error event of that failure.
StreamEndsOnce ==
    \A s \in Slots :
       LET r  == requests[s]
           ev == r.events
       IN  r.endpoint = "stream" =>
              /\ \A k \in 1..Len(ev) :
                    /\ ev[k].type \in {"content", "done", "error"}
                    /\ IsTerminal(ev[k]) => (k = Len(ev) /\ r.pc = "done")
              /\ Len(ev) <= Len(r.chunks) + 1
              /\ (r.pc = "done" /\ r.status = 200) =>
                    (ev # <<>> /\ IsTerminal(ev[Len(ev)]))
              /\ (r.status = 200 /\ r.error # "") =>
                    (ev # <<>> /\ ev[Len(ev)] = Event("error", <<r.error>>))
              /\ (r.pc = "done" /\ r.status = 200 /\ r.error = "") =>
                    ev[Len(ev)].type = "done"

\* A streamed turn has sent a content event and then, the model's stream
\* breaking, the error event.
StreamEndsOnceWitness ==
    \E s \in Slots :
       /\ requests[s].endpoint = "stream"
       /\ requests[s].pc = "done"
       /\ Len(requests[s].events) = 2
       /\ requests[s].events[1].type = "content"
       /\ requests[s].events[2].type = "error"

\* The todo the last tool executed in the turn has returned is in the store
\* as returned.
LastEffectHeld(r, rows) ==
    LET entries == ToolEntries(r.context)
    IN  entries # <<>> =>
           LET shown == entries[Len(entries)].result.todo
           IN  shown # <<>> =>
                  \E i \in DOMAIN rows :
                     /\ IdStr(i) = shown[1].id
                     /\ rows[i].title = shown[1].title
                     /\ rows[i].completed = shown[1].completed

\* C13: nothing is rolled back.  The step in which a turn fails (a model
\* call, json.loads or a tool raising) and the steps that handle the failure
\* leave the todo store as the tools executed before have left it.
FailureKeepsToolEffects ==
    [][\A s \in Slots :
         LET r    == requests[s]
             r2   == requests'[s]
             call == Head(r.pending)
         IN  (r2 # r /\ (r.pc = "failed" \/ r2.error # "")) =>
                /\ IF lastOp'.op = "execute_tool"
                   THEN DbAfter = execute_tool(call.name, call.arguments, Db, r.user).db
                        /\ DbAfter = Db
                   ELSE DbAfter = Db
                /\ LastEffectHeld(r2, todos')]_vars

\* A buffered turn has created and completed a todo, then the next model
\* call has failed and the turn has ended with status 500; the completed
\* todo is in the store.
FailureKeepsToolEffectsWitness ==
    \E s \in Slots :
       /\ requests[s].endpoint = "chat"
       /\ requests[s].pc = "done"
       /\ requests[s].status = 500
       /\ requests[s].error = "timeout"
       /\ Len(ToolEntries(requests[s].context)) = 2
       /\ \E i \in DOMAIN todos : todos[i].completed /\ todos[i].user_id = requests[s].user

\* The step ran a todo endpoint that takes an id.
TodoByIdStep ==
    lastOp'.op \in {"get_todo", "update_todo", "delete_todo"}

\* The step ran a conversation endpoint, or began a chat turn, with an id.
ConversationByIdStep ==
    /\ lastOp'.op \in {"get_conversation", "delete_conversation",
                       "chat_begin", "chat_stream_begin"}
    /\ lastOp'.id # NoId

\* What a todo endpoint answers for an id no todo has: 404, or 422 for a
\* PUT whose body is refused before the handler runs.
MissingTodoResponse ==
    IF /\ lastOp'.op = "update_todo"
       /\ ~TodoUpdate(lastOp'.arguments["title"], lastOp'.arguments["include_completed"])
    THEN Http(422)
    ELSE TodoNotFound

\* C14: an endpoint called with the id of a todo or conversation of another
\* owner answers what it answers for an id that does not exist, which is
\* 404 for every request with a valid body, and changes nothing.
ForeignIdLooksMissing ==
    [][/\ (TodoByIdStep
           /\ (lastOp'.id \notin DOMAIN todos
               \/ todos[lastOp'.id].user_id # lastOp'.user))
          => /\ result' = MissingTodoResponse
             /\ result'.status # 422 => result'.status = 404
             /\ StoreUnchanged
       /\ (ConversationByIdStep
           /\ (lastOp'.id \notin DOMAIN conversations
               \/ conversations[lastOp'.id].user_id # lastOp'.user))
          => /\ result' = ConversationNotFound
             /\ result'.status = 404
             /\ UNCHANGED <<conversations, messages>>
             /\ lastOp'.slot # "" =>
                   /\ requests'[lastOp'.slot].pc = "done"
                   /\ requests'[lastOp'.slot].status = 404]_vars

\* An owner has asked to update a todo of another owner, which exists, and
\* has been answered 404.
ForeignIdLooksMissingWitness ==
    /\ lastOp.op = "update_todo"
    /\ lastOp.id \in DOMAIN todos
    /\ todos[lastOp.id].user_id # lastOp.user
    /\ result.status = 404
    /\ result = TodoNotFound

\* The mutation of the tool of the step has been applied to todo i.
MutationApplied(i) ==
    CASE lastOp'.tool = "complete_todo" ->
           i \in DOMAIN todos' /\ todos'[i].completed /\ todos'[i].title = todos[i].title
      [] lastOp'.tool = "uncomplete_todo" ->
           i \in DOMAIN todos' /\ ~todos'[i].completed /\ todos'[i].title = todos[i].title
      [] lastOp'.tool = "delete_todo" ->
           i \notin DOMAIN todos'
      [] lastOp'.tool = "update_todo" ->
           /\ i \in DOMAIN todos'
           /\ todos'[i].title = Strip(lastOp'.arguments["new_title"])
           /\ todos'[i].completed = todos[i].completed

\* C15: a mutating tool whose identifier is not the id of one of the
\* caller's todos looks at the caller's todos whose title contains it: none,
\* and the answer is the not-found envelope, without matches, and nothing
\* changes; one, and the mutation is applied to that todo and every other
\* todo stays as it was; several, and the answer is the ambiguous envelope.
TitleLookupClassifies ==
    [][(/\ MutatingToolStep
        /\ lastOp'.tool = "update_todo" => IsStr(lastOp'.arguments["new_title"])
        /\ OwnIdHits(todos, lastOp'.user, lastOp'.arguments["todo_identifier"]) = {})
       => LET text == lastOp'.arguments["todo_identifier"]
              hits == TitleHits(todos, lastOp'.user, text)
          IN  /\ hits = {} =>
                    /\ result' = NotFoundEnvelope(text)
                    /\ result'.success = FALSE /\ result'.matches = {}
                    /\ StoreUnchanged
              /\ Cardinality(hits) = 1 =>
                    /\ result'.success = TRUE /\ result'.matches = {}
                    /\ \A i \in hits : MutationApplied(i)
                    /\ \A j \in DOMAIN todos \ hits :
                          j \in DOMAIN todos' /\ todos'[j] = todos[j]
                    /\ DOMAIN todos' \subseteq DOMAIN todos
              /\ Cardinality(hits) > 1 =>
                    /\ result' = MultipleEnvelope(todos, hits, text)
                    /\ result'.success = FALSE
                    /\ StoreUnchanged]_vars

\* update_todo has resolved its identifier by title to the one of the
\* caller's two todos that contains it, and has changed that title alone.
TitleLookupClassifiesWitness ==
    /\ lastOp.op = "execute_tool"
    /\ lastOp.tool = "update_todo"
    /\ lastOp.arguments["todo_identifier"] = <<"a">>
    /\ result.success = TRUE
    /\ Cardinality({i \in DOMAIN todos : todos[i].user_id = lastOp.user}) = 2
    /\ \E i \in DOMAIN todos :
          /\ todos[i].user_id = lastOp.user
          /\ todos[i].updated_at > todos[i].created_at
          /\ \A j \in DOMAIN todos \ {i} : todos[j].updated_at = todos[j].created_at

\* C16: when the identifier is the id of one of the caller's todos, that
\* todo is the one the tool acts on, and no other todo changes, also when
\* the id text occurs in titles of the caller's other todos.
OwnIdShortCircuits ==
    [][(/\ MutatingToolStep
        /\ lastOp'.tool = "update_todo" => IsStr(lastOp'.arguments["new_title"]))
       => \A i \in OwnIdHits(todos, lastOp'.user, lastOp'.arguments["todo_identifier"]) :
             /\ result'.raised = "none"
             /\ result'.success = TRUE /\ result'.matches = {}
             /\ MutationApplied(i)
             /\ \A j \in DOMAIN todos \ {i} :
                   j \in DOMAIN todos' /\ todos'[j] = todos[j]
             /\ DOMAIN todos' \subseteq DOMAIN todos
             /\ lastOp'.tool # "delete_todo" => result'.todo[1].id = IdStr(i)]_vars

\* complete_todo called with the id of the caller's first todo has
\* completed it, while the caller's second todo, whose title contains the
\* id text, is untouched.
OwnIdShortCircuitsWitness ==
    /\ lastOp.op = "execute_tool"
    /\ lastOp.tool = "complete_todo"
    /\ lastOp.arguments["todo_identifier"] = IdStr(1)
    /\ result.success = TRUE
    /\ result.todo[1].id = IdStr(1)
    /\ DOMAIN todos = {1, 2}
    /\ todos[1].user_id = lastOp.user /\ todos[1].completed
    /\ todos[2].user_id = lastOp.user /\ ~todos[2].completed
    /\ ContainsText(todos[2].title, IdStr(1))

\* The caller's completed todos.
CompletedOf(rows, user_id) ==
    {i \in DOMAIN rows : rows[i].user_id = user_id /\ rows[i].completed}

ListedIds(db, user_id, include_completed) ==
    LET shown == list_todos_tool(db, user_id, include_completed).result.todos
    IN  {shown[k].id : k \in 1..Len(shown)}

\* C18: for one owner, a create_todo that succeeds leaves a new incomplete
\* todo that list_todos(include_completed = false) shows; complete_todo
\* with an identifier contained in the title of exactly one of the owner's
\* todos, and not the id of another of them, succeeds and completes that
\* todo, after which list_todos(include_completed = false) no longer shows
\* it and list_todos(include_completed = true) still does; and a list_todos
\* call shows the owner's todos, without the completed ones when the flag
\* is false or null, and changes nothing.
CreateListCompleteList ==
    [][/\ (/\ lastOp'.op = "execute_tool" /\ lastOp'.tool = "create_todo"
           /\ result'.success = TRUE)
          => \E i \in DOMAIN todos' \ DOMAIN todos :
                /\ todos'[i].user_id = lastOp'.user
                /\ todos'[i].title = Strip(lastOp'.arguments["title"])
                /\ todos'[i].completed = FALSE
                /\ IdStr(i) \in ListedIds(DbAfter, lastOp'.user, JFalse)
       /\ (/\ lastOp'.op = "execute_tool" /\ lastOp'.tool = "complete_todo"
           /\ IsStr(lastOp'.arguments["todo_identifier"]))
          => \A i \in DOMAIN todos :
                (/\ TitleHits(todos, lastOp'.user, lastOp'.arguments["todo_identifier"]) = {i}
                 /\ OwnIdHits(todos, lastOp'.user, lastOp'.arguments["todo_identifier"]) \subseteq {i})
                => /\ result'.success = TRUE
                   /\ result'.todo[1].id = IdStr(i)
                   /\ todos'[i].completed = TRUE
                   /\ IdStr(i) \notin ListedIds(DbAfter, lastOp'.user, JFalse)
                   /\ IdStr(i) \in ListedIds(DbAfter, lastOp'.user, JTrue)
       /\ (lastOp'.op = "execute_tool" /\ lastOp'.tool = "list_todos")
          => /\ StoreUnchanged
             /\ {result'.todos[k].id : k \in 1..Len(result'.todos)}
                  = {IdStr(i) : i \in
                       {j \in DOMAIN todos :
                          /\ todos[j].user_id = lastOp'.user
                          /\ lastOp'.arguments["include_completed"] \in {JFalse, JNull}
                               => ~todos[j].completed}}]_vars

\* list_todos(include_completed = false) has come back empty for a user
\* whose only todo, titled "A1", is completed: the end of the sequence.
CreateListCompleteListWitness ==
    /\ lastOp.op = "execute_tool"
    /\ lastOp.tool = "list_todos"
    /\ lastOp.arguments["include_completed"] = JFalse
    /\ result.success = TRUE
    /\ result.todos = <<>>
    /\ \E i \in DOMAIN todos :
          /\ todos[i].user_id = lastOp.user
          /\ todos[i].completed
          /\ todos[i].title = <<"A", "1">>


\* The outcome class of a mutating tool's answer.
OutcomeClass(res) ==
    IF res.success THEN "resolved"
    ELSE IF res.matches # {} THEN "ambiguous" ELSE "not-found"

\* The outcome class the owner's rows and the identifier determine.
ClassOf(rows, user_id, text) ==
    IF Resolved(rows, user_id, text) # {} THEN "resolved"
    ELSE IF TitleHits(rows, user_id, text) = {} THEN "not-found" ELSE "ambiguous"

\* The todos the step acted on: the one removed, or the one answered.
ActedOn ==
    IF lastOp'.tool = "delete_todo" THEN DOMAIN todos \ DOMAIN todos'
    ELSE {i \in DOMAIN todos : \E k \in 1..Len(result'.todo) : result'.todo[k].id = IdStr(i)}

\* C19: the outcome of a mutating tool is a function of the tool, the
\* owner, the identifier and the rows of the store alone: whatever happened
\* before, the class of the answer is the class the owner's rows and the
\* identifier determine, a resolved call acts on the one todo they
\* determine, and any other call acts on none and changes nothing.
ResolutionIsDeterministic ==
    [][(/\ MutatingToolStep
        /\ lastOp'.tool = "update_todo" => IsStr(lastOp'.arguments["new_title"]))
       => LET text == lastOp'.arguments["todo_identifier"]
          IN  /\ result'.raised = "none"
              /\ OutcomeClass(result') = ClassOf(todos, lastOp'.user, text)
              /\ ActedOn = Resolved(todos, lastOp'.user, text)
              /\ OutcomeClass(result') # "resolved" => StoreUnchanged]_vars

\* The same complete_todo call on stores that hold the same two matching
\* rows of the caller, reached by different histories (the clock differs),
\* is answered as ambiguous: here after an update by the other user.
ResolutionIsDeterministicWitness ==
    /\ lastOp.op = "execute_tool"
    /\ lastOp.tool = "complete_todo"
    /\ IsStr(lastOp.arguments["todo_identifier"])
    /\ OutcomeClass(result) = "ambiguous"
    /\ Cardinality(result.matches) = 2
    /\ clock > nextTodoId - 1


\* The text, built of pieces, quotes the text e.
Mentions(text, e) ==
    \E k \in 1..Len(text) : text[k] = e

\* C20 as claimed: when a turn has ended on an exception, neither the detail
\* of the 500 response, nor an error event of the stream, nor an assistant
\* message stored in the conversation quotes the text of the exception.
NoInternalDetailLeaked ==
    \A s \in Slots :
       LET r == requests[s]
       IN  (r.pc = "done" /\ r.error # "") =>
              /\ ~Mentions(r.detail, r.error)
              /\ \A k \in 1..Len(r.events) :
                    r.events[k].type = "error" => ~Mentions(r.events[k].data, r.error)
              /\ \A m \in 1..Len(messages) :
                    (messages[m].conversation_id = r.conv /\ messages[m].role = "assistant")
                    => ~Mentions(messages[m].content, r.error)


\* The tool results at the end of the messages a turn sends the model: the
\* calls of the current round that have been executed, in execution order.
RECURSIVE ToolSuffix(_)
ToolSuffix(context) ==
    IF context = <<>> \/ context[Len(context)].role # "tool" THEN <<>>
    ELSE Append(ToolSuffix(SubSeq(context, 1, Len(context) - 1)),
                context[Len(context)])

\* The ids of the todos a tool result lists.
ListedIn(res) ==
    {res.todos[k].id : k \in 1..Len(res.todos)}

\* C21: while a turn runs the tool calls of a reply, the calls executed so
\* far followed by the calls still pending are the calls of the reply in the
\* order the model listed them; the model is called again only when none is
\* pending; and a later call of the round sees what an earlier one left: a
\* list_todos after a successful delete_todo by id does not list that id,
\* and a complete_todo by a text of the title of a todo created earlier in
\* the round is not answered not-found.
SequentialToolCalls ==
    \A s \in Slots :
       LET r    == requests[s]
           done == ToolSuffix(r.context)
       IN  (r.pc \in {"tools", "model"} /\ r.rounds > 0) =>
              /\ [k \in 1..Len(done) |-> done[k].tool_call] \o r.pending
                   = r.reply.tool_calls
              /\ r.pc = "model" => r.pending = <<>>
              /\ r.pc = "tools" => r.pending # <<>>
              /\ \A j, k \in 1..Len(done) :
                    (j < k /\ done[j].result.success) =>
                       /\ (/\ done[j].tool_call.name = "delete_todo"
                           /\ done[k].tool_call.name = "list_todos")
                          => done[j].tool_call.arguments["todo_identifier"]
                                \notin ListedIn(done[k].result)
                       /\ (/\ done[j].tool_call.name = "create_todo"
                           /\ done[k].tool_call.name = "complete_todo"
                           /\ ContainsText(done[j].result.todo[1].title,
                                           done[k].tool_call.arguments["todo_identifier"]))
                          => (done[k].result.success \/ done[k].result.matches # {})

\* A reply asked for delete_todo by id and then list_todos: the delete has
\* removed the user's only todo and the list that followed is empty.
SequentialToolCallsWitness ==
    \E s \in Slots :
       LET done == ToolSuffix(requests[s].context)
       IN  /\ requests[s].pc = "model"
           /\ Len(done) = 2
           /\ done[1].tool_call.name = "delete_todo"
           /\ done[1].result.success = TRUE
           /\ done[2].tool_call.name = "list_todos"
           /\ done[2].result.total = 0


\* The replies with tool calls a turn has put among the messages it sends
\* the model.
ToolReplies(context) ==
    SelectSeq(context, LAMBDA m : m.role = "assistant" /\ "tool_calls" \in DOMAIN m)

StreamReusesContent ==
    \A s \in Slots :
       LET r == requests[s]
       IN  (r.endpoint = "stream" /\ r.pc = "persist") =>
              IF Truthy(r.reply.content)
              THEN r.chunks = <<r.reply.content>> /\ r.calls = r.rounds + 1
              ELSE r.calls = r.rounds + 2


\* C24 as claimed: a turn that has ended without an error, on either
\* endpoint, has stored as the last message of its conversation an assistant
\* message whose content is what the client received, which is the content
\* of the last reply of the model, or the fallback text when that content is
\* empty or null, and is never empty.
FinalAnswerNeverEmpty ==
    \A s \in Slots :
       LET r    == requests[s]
           rows == MessagesOf(r.conv)
           last == rows[Len(rows)]
       IN  (FinishedTurn(r) /\ r.error = "") =>
              /\ last.role = "assistant"
              /\ last.content = (IF r.endpoint = "chat" THEN r.detail
                                 ELSE Concat(r.chunks))
              /\ last.content = FinalText(r.reply.content)
              /\ last.content # <<>>


\* C25: when the next tool call of a reply has arguments that do not parse,
\* the calls before it are the only ones of the reply that have run, the
\* call and those after it do not run, the store is not touched, no model
\* call follows, and the turn ends in failure: /api/chat goes on to store
\* the apology and answer 500, /api/chat/stream ends with an error event.
MalformedIsFatal ==
    [][\A s \in Slots :
         LET r    == requests[s]
             r2   == requests'[s]
             done == ToolSuffix(r.context)
         IN  /\ (/\ r.pc = "tools" /\ r2 # r
                 /\ Head(r.pending).payload = "malformed") =>
                   /\ lastOp'.op = "json.loads"
                   /\ StoreUnchanged
                   /\ [k \in 1..Len(done) |-> done[k].tool_call] \o r.pending
                        = r.reply.tool_calls
                   /\ r2.context = r.context
                   /\ r2.calls = r.calls
                   /\ r2.error = "JSONDecodeError"
                   /\ IF r.endpoint = "chat"
                      THEN r2.pc = "failed"
                      ELSE /\ r2.pc = "done"
                           /\ r2.events = Append(r.events,
                                                 Event("error", <<"JSONDecodeError">>))
             /\ (r.pc = "failed" /\ r2 # r) =>
                   /\ StoreUnchanged
                   /\ r2.pc = "done"
                   /\ r2.status = 500
                   /\ r2.calls = r.calls
                   /\ r2.context = r.context]_vars

\* The second call of a reply did not parse after the first, a delete_todo,
\* had removed a todo: the turn has stopped there.
MalformedIsFatalWitness ==
    /\ lastOp.op = "json.loads"
    /\ \E s \in Slots :
          LET done == ToolSuffix(requests[s].context)
          IN  /\ requests[s].error = "JSONDecodeError"
              /\ Len(done) = 1
              /\ done[1].tool_call.name = "delete_todo"
              /\ done[1].result.success = TRUE
              /\ Len(requests[s].pending) = 1


\* The record of the tools a turn has executed, in execution order.
ExecutedRecord(context) ==
    LET done == ToolEntries(context)
    IN  [k \in 1..Len(done) |->
           [tool |-> done[k].tool_call.name,
            arguments |-> done[k].tool_call.arguments,
            result |-> done[k].result]]

\* C26 as claimed: the assistant message a turn has stored, on /api/chat or
\* on /api/chat/stream, carries the record {tool, arguments, result} of the
\* tools the turn executed, in execution order, and none when no tool ran.
ToolRecordPersisted ==
    \A s \in Slots :
       LET r    == requests[s]
           rows == MessagesOf(r.conv)
           last == rows[Len(rows)]
       IN  (FinishedTurn(r) /\ r.error = "") =>
              /\ last.role = "assistant"
              /\ last.tool_calls = ExecutedRecord(r.context)


\* The messages the conversation of the turn held before the turn stored
\* its user message.
HeldBefore(r) ==
    SelectSeq(MessagesOf(r.conv), LAMBDA m : m.id # r.user_msg)

\* C27: the messages a turn is about to send with its first model call are
\* the system prompt, then the last min(HistoryWindow, n) of the n messages
\* the conversation held before the turn, oldest first, each as its role and
\* content, then the new user message, once; the user message is by then the
\* last stored message of the conversation and is not among the history.
FirstCallInput ==
    \A s \in Slots :
       LET r      == requests[s]
           rows   == MessagesOf(r.conv)
           before == HeldBefore(r)
           n      == Len(before)
           k      == IF n < HistoryWindow THEN n ELSE HistoryWindow
       IN  (r.pc = "model" /\ r.rounds = 0) =>
              /\ rows[Len(rows)] = Message(r.user_msg, r.conv, "user", r.message, <<>>)
              /\ n = Len(rows) - 1
              /\ Len(r.context) = k + 2
              /\ r.context[1] = [role |-> "system", content |-> SYSTEM_PROMPT]
              /\ \A j \in 1..k :
                    r.context[1 + j] = [role |-> before[n - k + j].role,
                                        content |-> before[n - k + j].content]
              /\ r.context[k + 2] = [role |-> "user", content |-> r.message]

\* A turn on a conversation that held 22 messages is about to call the
\* model with the system prompt, the last 20 of them and the user message.
FirstCallInputWitness ==
    \E s \in Slots :
       /\ requests[s].pc = "model"
       /\ requests[s].rounds = 0
       /\ Len(HeldBefore(requests[s])) = 22
       /\ Len(requests[s].context) = 22
       /\ requests[s].context[2].content = <<"x", "x", "x">>


\* Role and content of stored messages, in creation order.
Replayed(rows) ==
    [k \in 1..Len(rows) |-> [role |-> rows[k].role, content |-> rows[k].content]]

\* C28: every stored message has the role user or assistant, store-wide and
\* at every step; and when a /api/chat turn completes with status 200 its
\* conversation holds, in creation order, the messages it held when the turn
\* read its history, then the user message of the turn, then the final
\* assistant message, and nothing else.
TurnAppendsTwo ==
    [][/\ \A k \in 1..Len(messages') : messages'[k].role \in {"user", "assistant"}
       /\ \A s \in Slots :
            LET r    == requests[s]
                r2   == requests'[s]
                rows == MessagesIn(messages', r.conv)
            IN  (/\ r.endpoint = "chat" /\ r.pc = "answer"
                 /\ r2.pc = "done" /\ r2.status = 200) =>
                   /\ Len(rows) = Len(r.history) + 2
                   /\ Replayed(rows) =
                        r.history
                        \o <<[role |-> "user", content |-> r.message],
                             [role |-> "assistant",
                              content |-> FinalText(r.reply.content)]>>
                   /\ rows[Len(rows) - 1].id = r.user_msg
                   /\ Len(messages') = Len(messages) + 1]_vars

\* A second /api/chat turn on a conversation, one that ran tools, has
\* completed: the conversation holds four messages.
TurnAppendsTwoWitness ==
    /\ lastOp.op = "chat_answer"
    /\ \E s \in Slots :
          /\ requests[s].status = 200
          /\ requests[s].pc = "done"
          /\ requests[s].tool_calls_made # <<>>
          /\ Len(requests[s].history) = 2
          /\ Len(MessagesOf(requests[s].conv)) = 4


\* The words of a text: its maximal runs of characters other than the space.
WordsOf(text) ==
    LET starts == {i \in 1..Len(text) :
                     text[i] # " " /\ (i = 1 \/ text[i - 1] = " ")}
        EndOf(i) == CHOOSE j \in i..Len(text) :
                      /\ \A k \in i..j : text[k] # " "
                      /\ (j = Len(text) \/ text[j + 1] = " ")
        Nth(n) == CHOOSE i \in starts : Cardinality({j \in starts : j < i}) = n - 1
    IN  [n \in 1..Cardinality(starts) |-> SubSeq(text, Nth(n), EndOf(Nth(n)))]

\* C29: at the step that ends the first exchange of a conversation without
\* an error, on either endpoint, the title becomes the first five words of
\* the user message joined by single spaces, followed by "..." exactly when
\* the message has more than five words.
TitleIsFirstFiveWords ==
    [][\A s \in Slots :
         LET r     == requests[s]
             r2    == requests'[s]
             words == WordsOf(r.message)
             title == conversations'[r.conv].title
         IN  (/\ r.pc \in {"answer", "persist"}
              /\ r2.pc = "done" /\ r2.error = ""
              /\ Len(r.history) = 0) =>
                IF Len(words) > 5
                THEN title = words[1] \o <<" ">> \o words[2] \o <<" ">> \o words[3]
                               \o <<" ">> \o words[4] \o <<" ">> \o words[5]
                               \o <<".", ".", ".">>
                ELSE /\ WordsOf(title) = words
                     /\ Len(title) = Len(Concat(words)) + Len(words) - 1]_vars

\* The first exchange of a conversation has ended on the message of five
\* words "a  b c d e": the title is "a b c d e", without ellipsis.
TitleIsFirstFiveWordsWitness ==
    \E s \in Slots :
       /\ requests[s].pc = "done"
       /\ requests[s].error = ""
       /\ requests[s].history = <<>>
       /\ requests[s].message = <<"a", " ", " ", "b", " ", "c", " ", "d", " ", "e">>
       /\ requests[s].conv \in DOMAIN conversations
       /\ conversations[requests[s].conv].title
            = <<"a", " ", "b", " ", "c", " ", "d", " ", "e">>


\* C30 as claimed: every todo in the store has a non-empty title, whatever
\* create_todo, update_todo and the REST create and update calls were made.
TitlesNeverEmpty ==
    \A i \in DOMAIN todos : todos[i].title # <<>>


----------------------------------------------------------------------------
(* Title lookup with LIKE patterns (services/todo_tools.py).  The texts    *)
(* the title search is called with here include the empty text and the two *)
(* characters that ILIKE reads as wildcards.                               *)

LikeInputs ==
    {<<>>, <<"a">>, <<"_">>, <<"%">>}

NextLike ==
    \/ \E u \in Users, v \in TitleInputs :
         ExecuteTool(u, "create_todo", Bag("title", v))
    \/ \E u \in Users, q \in LikeInputs :
         ExecuteTool(u, "search_todos", Bag("query", q))
    \/ \E u \in Users, q \in LikeInputs :
         ExecuteTool(u, "delete_todo", Bag("todo_identifier", q))

LikeSpec ==
    InitStore /\ [][NextLike]_vars

\* C31: title lookup is a literal case-insensitive substring match for
\* every text, the empty text and texts holding % or _ included:
\* search_todos lists exactly the caller's todos whose title contains the
\* query, and delete_todo with a text that is no id of the caller's answers
\* not-found when no title contains it, deletes the todo when one does and
\* answers ambiguous when several do.
LiteralSubstringLookup ==
    [][/\ (/\ lastOp'.op = "execute_tool"
           /\ lastOp'.tool = "search_todos")
          => /\ result'.success = TRUE
             /\ ListedIn(result') =
                  {IdStr(i) : i \in TitleHits(todos, lastOp'.user,
                                              lastOp'.arguments["query"])}
       /\ (/\ lastOp'.op = "execute_tool"
           /\ lastOp'.tool = "delete_todo"
           /\ OwnIdHits(todos, lastOp'.user,
                        lastOp'.arguments["todo_identifier"]) = {})
          => LET text == lastOp'.arguments["todo_identifier"]
                 hits == TitleHits(todos, lastOp'.user, text)
             IN  /\ hits = {} => result' = NotFoundEnvelope(text) /\ StoreUnchanged
                 /\ Cardinality(hits) = 1 =>
                       /\ result'.success = TRUE
                       /\ DOMAIN todos' = DOMAIN todos \ hits
                 /\ Cardinality(hits) > 1 =>
                       /\ result' = MultipleEnvelope(todos, hits, text)
                       /\ StoreUnchanged]_vars

\* The same, for the texts that hold neither % nor _.
PlainTextLookup ==
    [][/\ (/\ lastOp'.op = "execute_tool"
           /\ lastOp'.tool = "search_todos"
           /\ lastOp'.arguments["query"] \in {<<>>, <<"a">>})
          => ListedIn(result') =
               {IdStr(i) : i \in TitleHits(todos, lastOp'.user,
                                           lastOp'.arguments["query"])}
       /\ (/\ lastOp'.op = "execute_tool"
           /\ lastOp'.tool = "delete_todo"
           /\ lastOp'.arguments["todo_identifier"] \in {<<>>, <<"a">>})
          => TitleMatches(todos, lastOp'.user, lastOp'.arguments["todo_identifier"])
               = TitleHits(todos, lastOp'.user, lastOp'.arguments["todo_identifier"])]_vars


\* C32: list_todos answers with exactly the caller's todos, all of them
\* when include_completed is true or absent and the incomplete ones when it
\* is false, each as the store holds it, the newest created first, with
\* total the number of todos listed, and leaves the store as it was.
ListTodosContract ==
    [][(/\ lastOp'.op = "execute_tool"
        /\ lastOp'.tool = "list_todos"
        /\ lastOp'.arguments["include_completed"] \in {JMissing, JTrue, JFalse})
       => LET flag  == lastOp'.arguments["include_completed"]
              own   == {i \in DOMAIN todos : todos[i].user_id = lastOp'.user}
              want  == IF flag = JFalse
                       THEN {i \in own : todos[i].completed = FALSE}
                       ELSE own
              shown == result'.todos
          IN  /\ result'.raised = "none" /\ result'.success = TRUE
              /\ Len(shown) = Cardinality(want)
              /\ \A i \in want : \E k \in 1..Len(shown) :
                    shown[k] = [id |-> IdStr(i), title |-> todos[i].title,
                                completed |-> todos[i].completed,
                                created_at |-> todos[i].created_at]
              /\ \A k, l \in 1..Len(shown) :
                    k < l => shown[k].created_at > shown[l].created_at
              /\ result'.total = Len(shown)
              /\ StoreUnchanged]_vars

\* list_todos without a flag has listed the caller's two todos, the one
\* created later first, one of them completed.
ListTodosContractWitness ==
    /\ lastOp.op = "execute_tool"
    /\ lastOp.tool = "list_todos"
    /\ lastOp.arguments["include_completed"] = JMissing
    /\ result.total = 2
    /\ Len(result.todos) = 2
    /\ result.todos[1].created_at > result.todos[2].created_at
    /\ \E k \in 1..2 : result.todos[k].completed
    /\ \A i \in DOMAIN todos : todos[i].user_id = lastOp.user


\* The owner, id and created timestamp of a todo that stays in the store
\* stay as they were, its updated timestamp does not decrease, and it
\* advances when the title or the completed flag changes.
TodoIdentityKept ==
    [][\A i \in DOMAIN todos \cap DOMAIN todos' :
          /\ todos'[i].id = todos[i].id
          /\ todos'[i].user_id = todos[i].user_id
          /\ todos'[i].created_at = todos[i].created_at
          /\ todos'[i].updated_at >= todos[i].updated_at
          /\ (\/ todos'[i].title # todos[i].title
              \/ todos'[i].completed # todos[i].completed)
             => todos'[i].updated_at > todos[i].updated_at]_vars

\* C33: the owner, id and created timestamp of a todo never change after
\* creation and its updated timestamp never decreases: it advances on every
\* operation that changes the title or the completed flag, and on no
\* operation that leaves the title and the completed flag as they were.
UpdatedTracksChanges ==
    [][\A i \in DOMAIN todos \cap DOMAIN todos' :
          /\ todos'[i].id = todos[i].id
          /\ todos'[i].user_id = todos[i].user_id
          /\ todos'[i].created_at = todos[i].created_at
          /\ todos'[i].updated_at >= todos[i].updated_at
          /\ (todos'[i].updated_at > todos[i].updated_at)
             <=> (\/ todos'[i].title # todos[i].title
                  \/ todos'[i].completed # todos[i].completed)]_vars


----------------------------------------------------------------------------
(* Requests on one conversation at the same time: two turns and a delete.  *)
(* DELETE /api/conversations/{id} is taken here in the two steps its       *)
(* awaits separate: the selects, then the flush and commit.                *)

Racers ==
    {"r1", "r2"}

Deleter ==
    "d1"

Yo ==
    <<"y", "o">>

\* The message each of the two clients sends.
RaceMessage(slot) ==
    IF slot = "r1" THEN Hi ELSE Yo

RaceReplies ==
    {[NoReply EXCEPT !.fail = "timeout"], [NoReply EXCEPT !.content = Ok]}

RaceStreams ==
    { [fail |-> "timeout", deltas |-> <<>>, breaks |-> ""],
      [fail |-> "", deltas |-> << <<"o">>, <<"k">> >>, breaks |-> ""] }

\* select(Conversation) by id and owner, 404 if none; select(Message) of the
\* conversation.  The rows read are kept in the request (history).
delete_conversation_select(slot, user_id, conversation_id) ==
    /\ requests[slot].pc \in {"idle", "done"}
    /\ LET r == [IdleRequest EXCEPT !.endpoint = "delete", !.user = user_id]
       IN  IF ConversationOf(user_id, conversation_id) = {}
           THEN /\ SetRequest(slot, [r EXCEPT !.pc = "done", !.status = 404])
                /\ result' = ConversationNotFound
           ELSE /\ SetRequest(slot, [r EXCEPT !.pc = "deleting",
                                              !.conv = conversation_id,
                                              !.history = MessagesOf(conversation_id)])
                /\ result' = NoResult
    /\ lastOp' = [NoOp EXCEPT !.op = "delete_conversation_select", !.user = user_id,
                              !.slot = slot, !.id = conversation_id]
    /\ UNCHANGED <<conversations, messages, nextConvId, nextMsgId>>
    /\ UnchangedTodos

\* The commit of the delete on a database that does not hold messages to
\* their conversation: the rows read and the conversation go, whatever has
\* been committed since.
delete_conversation_commit_unchecked(slot) ==
    /\ requests[slot].pc = "deleting"
    /\ LET r    == requests[slot]
           read == {r.history[k].id : k \in 1..Len(r.history)}
       IN  /\ messages' = SelectSeq(messages, LAMBDA m : m.id \notin read)
           /\ conversations' = [c \in DOMAIN conversations \ {r.conv}
                                  |-> conversations[c]]
           /\ SetRequest(slot, [r EXCEPT !.pc = "done", !.status = 204])
           /\ result' = Http(204)
    /\ lastOp' = [NoOp EXCEPT !.op = "delete_conversation",
                              !.user = requests[slot].user, !.slot = slot,
                              !.id = requests[slot].conv]
    /\ UNCHANGED <<nextConvId, nextMsgId>>
    /\ UnchangedTodos

\* db.delete(msg) for the rows read, db.delete(conversation), commit.  A
\* message committed since the select still references the conversation:
\* the flush fails on the constraint and nothing is deleted.
delete_conversation_commit(slot) ==
    /\ requests[slot].pc = "deleting"
    /\ LET r == requests[slot]
       IN  IF MessagesOf(r.conv) # r.history
           THEN /\ SetRequest(slot, [r EXCEPT !.pc = "done", !.status = 500,
                                              !.error = "IntegrityError"])
                /\ result' = ServerError
                /\ UNCHANGED <<conversations, messages>>
           ELSE /\ messages' = SelectSeq(messages,
                                         LAMBDA m : m.conversation_id # r.conv)
                /\ conversations' = [c \in DOMAIN conversations \ {r.conv}
                                       |-> conversations[c]]
                /\ SetRequest(slot, [r EXCEPT !.pc = "done", !.status = 204])
                /\ result' = Http(204)
    /\ lastOp' = [NoOp EXCEPT !.op = "delete_conversation",
                              !.user = requests[slot].user, !.slot = slot,
                              !.id = requests[slot].conv]
    /\ UNCHANGED <<nextConvId, nextMsgId>>
    /\ UnchangedTodos

InitRace ==
    /\ todos = <<>>
    /\ clock = 0
    /\ nextTodoId = 1
    /\ conversations = <<>>
    /\ messages = <<>>
    /\ nextConvId = 1
    /\ nextMsgId = 1
    /\ requests = [s \in Racers \cup {Deleter} |-> IdleRequest]
    /\ lastOp = NoOp
    /\ result = NoResult

NextRace ==
    \/ create_conversation("A")
    \/ delete_conversation_select(Deleter, "A", 1)
    \/ delete_conversation_commit(Deleter)
    \/ \E s \in Racers : chat_begin(s, "A", 1, RaceMessage(s))
    \/ \E s \in Racers : chat_history(s)
    \/ \E s \in Racers : chat_save_user(s)
    \/ \E s \in Racers, reply \in RaceReplies : chat_with_agent_call(s, reply)
    \/ \E s \in Racers : chat_failed(s)
    \/ \E s \in Racers : chat_answer(s)
    \/ \E s \in Racers : chat_stream_begin(s, "A", 1, RaceMessage(s))
    \/ \E s \in Racers : chat_stream_history(s)
    \/ \E s \in Racers : chat_stream_save_user(s)
    \/ \E s \in Racers, reply \in RaceReplies : chat_with_agent_stream_call(s, reply)
    \/ \E s \in Racers, stream \in RaceStreams : chat_with_agent_stream_final(s, stream)
    \/ \E s \in Racers : generate_persist(s)

RaceSpec ==
    InitRace /\ [][NextRace]_vars


\* C34: a delete_conversation that succeeds removes the conversation and
\* every message of it, and in every state, whatever the interleaving of
\* the delete with turns in flight on the conversation, every message in
\* the store belongs to a conversation in the store.
CascadeDelete ==
    [][/\ \A k \in 1..Len(messages') :
             messages'[k].conversation_id \in DOMAIN conversations'
       /\ (lastOp'.op = "delete_conversation" /\ result'.status = 204)
          => /\ lastOp'.id \in DOMAIN conversations
             /\ lastOp'.id \notin DOMAIN conversations'
             /\ \A k \in 1..Len(messages') :
                   messages'[k].conversation_id # lastOp'.id
             /\ \A k \in 1..Len(messages) :
                   messages[k].conversation_id # lastOp'.id
                   => \E l \in 1..Len(messages') : messages'[l] = messages[k]]_vars

\* The delete has succeeded and has removed a conversation that held
\* messages, while a turn that had saved its user message in it is waiting
\* for the model.
CascadeDeleteWitness ==
    /\ lastOp.op = "delete_conversation"
    /\ result.status = 204
    /\ messages = <<>>
    /\ nextMsgId > 1
    /\ \E s \in DOMAIN requests :
          /\ requests[s].pc = "model"
          /\ requests[s].user_msg # NoId
          /\ requests[s].conv = lastOp.id
          /\ requests[s].conv \notin DOMAIN conversations


\* The identifiers the four lookups are compared on: text that is a title
\* fragment, text that writes an id, text with LIKE wildcards, the empty
\* text and null.
ResolveInputs ==
    IdentInputs \cup LikeInputs \cup {JNull}

\* C35: in every state, for every owner and identifier, the lookups of
\* complete_todo, uncomplete_todo, delete_todo and update_todo end in the
\* same class (raise, none, many, todo) with the same todos selected, and
\* when the identifier is not resolved the four tools give the same answer
\* and leave the store as it is.
OneResolveAlgorithm ==
    \A u \in Users, x \in ResolveInputs :
       LET c == complete_lookup(Db, u, x)
           outs == {complete_todo_tool(Db, u, x), uncomplete_todo_tool(Db, u, x),
                    delete_todo_tool(Db, u, x), update_todo_tool(Db, u, x, <<"a">>)}
       IN  /\ uncomplete_lookup(Db, u, x) = c
           /\ delete_lookup(Db, u, x) = c
           /\ update_lookup(Db, u, x) = c
           /\ c.kind # "todo"
              => /\ Cardinality(outs) = 1
                 /\ \A o \in outs : o.db = Db /\ o.result.success = FALSE

\* uncomplete_todo has just answered that its identifier is ambiguous, the
\* other three tools answer the same on this store, and an identifier that
\* writes the id of one of the caller's todos resolves to it in all four.
OneResolveAlgorithmWitness ==
    /\ lastOp.op = "execute_tool"
    /\ lastOp.tool = "uncomplete_todo"
    /\ result.matches # {}
    /\ LET u == lastOp.user
           x == lastOp.arguments["todo_identifier"]
       IN  /\ uncomplete_lookup(Db, u, x).kind = "many"
           /\ complete_todo_tool(Db, u, x).result = result
           /\ delete_todo_tool(Db, u, x).result = result
           /\ update_todo_tool(Db, u, x, <<"a">>).result = result
           /\ \E i \in DOMAIN todos :
                 /\ todos[i].user_id = u
                 /\ complete_lookup(Db, u, IdStr(i)).ids = {i}
                 /\ update_lookup(Db, u, IdStr(i)).ids = {i}


\* The content fragments among the events, joined in the order sent.
ContentSent(events) ==
    LET sent == SelectSeq(events, LAMBDA e : e.type = "content")
    IN  Concat([k \in 1..Len(sent) |-> sent[k].data])

\* C36: in a /api/chat/stream response the done event is emitted in the step
\* that commits the assistant message, whose content is the content
\* fragments sent before it joined in order; the step that emits an error
\* event stores nothing and no assistant message of the turn is in the
\* store; and nothing follows a done or an error event.
DoneAfterCommit ==
    [][\A s \in Slots :
          LET r  == requests[s]
              r2 == requests'[s]
              n  == Len(r2.events)
          IN  (r2.endpoint = "stream" /\ r2.events # r.events /\ n > 0)
              => /\ r2.events[n].type = "done"
                    => /\ SubSeq(r2.events, 1, n - 1) = r.events
                       /\ \A k \in 1..(n - 1) : r.events[k].type = "content"
                       /\ Len(messages') = Len(messages) + 1
                       /\ SubSeq(messages', 1, Len(messages)) = messages
                       /\ messages'[Len(messages')].role = "assistant"
                       /\ messages'[Len(messages')].conversation_id = r.conv
                       /\ messages'[Len(messages')].id > r.user_msg
                       /\ messages'[Len(messages')].content = ContentSent(r.events)
                 /\ r2.events[n].type = "error"
                    => /\ \A k \in 1..(n - 1) : r2.events[k].type = "content"
                       /\ messages' = messages
                       /\ r.user_msg # NoId
                       /\ \A k \in 1..Len(messages) :
                             ~(/\ messages[k].role = "assistant"
                               /\ messages[k].conversation_id = r.conv
                               /\ messages[k].id > r.user_msg)]_vars

\* A streamed turn has sent two content fragments and then done, and the
\* last message of its conversation is the assistant message holding the
\* two fragments joined.
DoneAfterCommitWitness ==
    \E s \in Slots :
       LET r == requests[s]
           n == Len(r.events)
       IN  /\ r.endpoint = "stream" /\ r.pc = "done"
           /\ n = 3
           /\ r.events[1] = Event("content", <<"o">>)
           /\ r.events[2] = Event("content", <<"k">>)
           /\ r.events[3].type = "done"
           /\ Len(messages) > 0
           /\ messages[Len(messages)].role = "assistant"
           /\ messages[Len(messages)].conversation_id = r.conv
           /\ messages[Len(messages)].content = <<"o", "k">>

\* A streamed turn has sent a content fragment and then an error, and the
\* last message of its conversation is its user message.
ErrorAfterContentWitness ==
    \E s \in Slots :
       LET r == requests[s]
       IN  /\ r.endpoint = "stream" /\ r.pc = "done"
           /\ Len(r.events) = 2
           /\ r.events[1].type = "content"
           /\ r.events[2].type = "error"
           /\ Len(messages) > 0
           /\ messages[Len(messages)].id = r.user_msg


\* The turn of the slot has ended with its answer: 200 from /api/chat, the
\* done event from /api/chat/stream.
Answered(s) ==
    LET r == requests[s]
    IN  /\ r.pc = "done"
        /\ \/ r.endpoint = "chat" /\ r.status = 200
           \/ /\ r.endpoint = "stream"
              /\ r.events # <<>>
              /\ r.events[Len(r.events)].type = "done"

\* The store holds the user message of the turn and, after it, an assistant
\* message of its conversation with the answer the client was given.
TurnPersisted(s) ==
    LET r    == requests[s]
        text == IF r.endpoint = "chat" THEN r.detail ELSE Concat(r.chunks)
    IN  /\ \E k \in 1..Len(messages) :
              messages[k] = Message(r.user_msg, r.conv, "user", r.message, <<>>)
        /\ \E k \in 1..Len(messages) :
              /\ messages[k].role = "assistant"
              /\ messages[k].conversation_id = r.conv
              /\ messages[k].id > r.user_msg
              /\ messages[k].content = text

\* What the turn sent to the model is the system prompt, messages of the
\* conversation that were committed before its own user message, in their
\* order, and its own message.
ContextCommitted(s) ==
    LET r    == requests[s]
        rows == MessagesOf(r.conv)
    IN  /\ r.context = BuildMessages(r.history, r.message)
        /\ Len(r.history) <= Len(rows)
        /\ \A k \in 1..Len(r.history) :
              /\ r.history[k] = [role |-> rows[k].role, content |-> rows[k].content]
              /\ rows[k].id < r.user_msg

\* Two turns on one conversation have both been answered: the messages of
\* both are in the store and the context of each held committed messages.
BothTurnsPersisted ==
    \A s, t \in Racers :
       (s # t /\ Answered(s) /\ Answered(t) /\ requests[s].conv \in DOMAIN conversations)
       => TurnPersisted(s) /\ ContextCommitted(s)

\* C37: when two turns on the same conversation run concurrently and both
\* are answered, both user messages and both assistant messages are in the
\* store, the context of each turn held only messages committed before it
\* read the history, and at most one of the two has derived the title.
ConcurrentTurns ==
    \A s, t \in Racers :
       (s # t /\ Answered(s) /\ Answered(t) /\ requests[s].conv \in DOMAIN conversations)
       => /\ TurnPersisted(s)
          /\ ContextCommitted(s)
          /\ ~(Len(requests[s].history) = 0 /\ Len(requests[t].history) = 0)

\* Both turns have derived the title, and the title the conversation is
\* left with is not the one of its first user message.
TitleOfLaterMessage ==
    /\ \A s \in Racers : Answered(s) /\ Len(requests[s].history) = 0
    /\ 1 \in DOMAIN conversations
    /\ conversations[1].title # DeriveTitle(MessagesOf(1)[1].content)

====
